---- MODULE Spec2Model ----
(***************************************************************************)
(* Model of the commonspace data-access layer (src/unnamed/part_001):      *)
(* the per-study table provisioner (createStudy,                           *)
(* createNewTableFromGehlFields), the data-point codec                     *)
(* (transformToPostgresInsert and its helpers) and the statements they     *)
(* send to PostgreSQL.                                                     *)
(*                                                                         *)
(* JavaScript values are tagged records, objects are sequences of          *)
(* key/value entries in insertion order, SQL statements are records of     *)
(* their parts (table, column list, placeholder list) instead of text.     *)
(***************************************************************************)
EXTENDS Integers, Sequences, FiniteSets, TLC

\* ------------------------------------------------------------------------
\* JavaScript values
\* ------------------------------------------------------------------------
Null == [t |-> "null"]
Undefined == [t |-> "undefined"]
Str(s) == [t |-> "string", s |-> s]
Num(n) == [t |-> "number", n |-> n]
Arr(xs) == [t |-> "array", xs |-> xs]
\* {type: 'Point', coordinates: [lon, lat]}
GeoPoint(lon, lat) == [t |-> "object", type |-> Str("Point"), coordinates |-> Arr(<<Num(lon), Num(lat)>>)]
\* {longitude: lon, latitude: lat}
LonLat(lon, lat) == [t |-> "object", longitude |-> Num(lon), latitude |-> Num(lat)]

\* o.name for a value o that is neither null nor undefined
Prop(o, name) == IF o.t = "object" /\ name \in DOMAIN o THEN o[name] ELSE Undefined

\* A thrown exception and a normal completion of a function
Throw(msg) == [threw |-> TRUE, error |-> msg]
Ok(v) == [threw |-> FALSE, value |-> v]

\* `${value}`: the string a template literal makes of a value
NumeralOf(n) ==
    CASE n = 0 -> "0" [] n = 1 -> "1" [] n = 2 -> "2" [] n = 3 -> "3"
      [] n = 4 -> "4" [] n = 5 -> "5" [] n = 6 -> "6" [] n = 7 -> "7"
      [] n = 8 -> "8" [] n = 9 -> "9" [] OTHER -> "number"

RECURSIVE JoinComma(_)
JoinComma(ss) ==
    IF Len(ss) = 0 THEN ""
    ELSE IF Len(ss) = 1 THEN Head(ss)
    ELSE Head(ss) \o "," \o JoinComma(Tail(ss))

RECURSIVE TemplateString(_)
TemplateString(v) ==
    CASE v.t = "string" -> v.s
      [] v.t = "null" -> "null"
      [] v.t = "undefined" -> "undefined"
      [] v.t = "number" -> NumeralOf(v.n)
      [] v.t = "array" ->
            JoinComma([i \in 1..Len(v.xs) |->
                IF v.xs[i].t \in {"null", "undefined"} THEN "" ELSE TemplateString(v.xs[i])])
      [] OTHER -> "[object Object]"

\* JSON.stringify(v): a string holding the JSON text of v
JSONstringify(v) == [t |-> "string", json |-> v]

\* ------------------------------------------------------------------------
\* Objects: sequences of entries [key, value], keys distinct
\* ------------------------------------------------------------------------
Keys(o) == {o[i].key : i \in 1..Len(o)}
Get(o, k) == IF k \in Keys(o) THEN (CHOOSE e \in {o[i] : i \in 1..Len(o)} : e.key = k).value ELSE Undefined
\* o[k] = v: an existing key keeps its place, a new key goes last
Put(o, k, v) ==
    IF k \in Keys(o)
    THEN [i \in 1..Len(o) |-> IF o[i].key = k THEN [key |-> k, value |-> v] ELSE o[i]]
    ELSE Append(o, [key |-> k, value |-> v])

\* ------------------------------------------------------------------------
\* Schema registry
\* ------------------------------------------------------------------------
validDataPointProperties ==
    {"survey_id", "data_point_id", "gender", "age", "mode", "posture", "activities",
     "groups", "object", "location", "creation_date", "last_updated", "note"}

genderLocationArray == <<"gender", "location">>
allGehlFieldsArray ==
    <<"gender", "age", "mode", "posture", "activities", "groups", "object", "location",
      "creation_date", "last_updated", "note">>

\* new Set(array): the distinct elements in order of first insertion
NewSet(xs) ==
    LET first == {i \in 1..Len(xs) : \A j \in 1..(i - 1) : xs[j] # xs[i]}
        nth(k) == CHOOSE i \in first : Cardinality({j \in first : j <= i}) = k
    IN [k \in 1..Cardinality(first) |-> xs[nth(k)]]

genderLocation == NewSet(genderLocationArray)
allGehlFields == NewSet(allGehlFieldsArray)
allGehlFieldsStrings == {allGehlFields[i] : i \in 1..Len(allGehlFields)}

\* Array.from(s).toString()
setString(s) == JoinComma(s)

wrapInArray(x) == IF x.t = "array" THEN x.xs ELSE <<x>>

\* ------------------------------------------------------------------------
\* Data point codec
\* ------------------------------------------------------------------------
RECURSIVE JoinCommaSpace(_)
JoinCommaSpace(ss) ==
    IF Len(ss) = 0 THEN ""
    ELSE IF Len(ss) = 1 THEN Head(ss)
    ELSE Head(ss) \o ", " \o JoinCommaSpace(Tail(ss))

\* .join(', ') between braces: the first element's exception, if any, wins
ArrayLiteral(arrayElements) ==
    IF \E i \in DOMAIN arrayElements : arrayElements[i].threw
    THEN arrayElements[CHOOSE i \in DOMAIN arrayElements :
            arrayElements[i].threw /\ \A j \in 1..(i - 1) : ~arrayElements[j].threw]
    ELSE Ok("{" \o JoinCommaSpace([i \in DOMAIN arrayElements |-> arrayElements[i].value]) \o "}")

\* Throws on a null element; otherwise the array literal '{a, b}'
RECURSIVE javascriptArrayToPostgresArray(_)
javascriptArrayToPostgresArray(xs) ==
    ArrayLiteral([i \in 1..Len(xs) |->
        CASE xs[i].t = "null" -> Throw("Cannot convert into a postgres array")
          [] xs[i].t = "string" -> Ok(xs[i].s)
          [] xs[i].t = "array" -> javascriptArrayToPostgresArray(xs[i].xs)
          [] xs[i].t = "object" -> Ok("[object Object]")
          [] xs[i].t = "undefined" -> Ok("")
          [] OTHER -> Ok(TemplateString(xs[i]))])

\* A placeholder expression of the statement: the SQL function wrapped around
\* the placeholders $params[1], $params[2], ... ("" for a bare $n)
Binding(fn, params) == [fn |-> fn, params |-> params]

\* Faulty variant: the well-known-text branch advances the index by one
convertKeyToParamterBinding_OneIndex(index, key, value) ==
    IF key = "location"
    THEN IF value.t \in {"null", "undefined"}
         THEN Throw("TypeError: Cannot read property 'type'")
         ELSE IF Prop(value, "type") = Str("Point")
              THEN Ok([index |-> index + 1, binding |-> Binding("ST_GeomFromGeoJSON", <<index>>)])
              ELSE Ok([index |-> index + 1, binding |-> Binding("ST_GeomFromText", <<index, index + 1>>)])
    ELSE Ok([index |-> index + 1, binding |-> Binding("", <<index>>)])

\* Faulty variant: the text of a plain value is written into the statement
convertKeyToParamterBinding_Inline(index, key, value) ==
    IF key = "location"
    THEN IF value.t \in {"null", "undefined"}
         THEN Throw("TypeError: Cannot read property 'type'")
         ELSE IF Prop(value, "type") = Str("Point")
              THEN Ok([index |-> index + 1, binding |-> Binding("ST_GeomFromGeoJSON", <<index>>)])
              ELSE Ok([index |-> index + 2, binding |-> Binding("ST_GeomFromText", <<index, index + 1>>)])
    ELSE Ok([index |-> index + 1, binding |-> Binding(TemplateString(value), <<index>>)])

convertKeyToParamterBinding(index, key, value) ==
    IF key = "location"
    THEN IF value.t \in {"null", "undefined"}
         THEN Throw("TypeError: Cannot read property 'type'")
         ELSE IF Prop(value, "type") = Str("Point")
              THEN Ok([index |-> index + 1, binding |-> Binding("ST_GeomFromGeoJSON", <<index>>)])
              ELSE Ok([index |-> index + 2, binding |-> Binding("ST_GeomFromText", <<index, index + 1>>)])
    ELSE Ok([index |-> index + 1, binding |-> Binding("", <<index>>)])

\* `${...}` of a string that was built, or the exception building it threw
AsString(r) == IF r.threw THEN r ELSE Ok(Str(r.value))

\* Faulty variant: the pair is returned as [latitude, longitude]
processDataPointToValue_LatLon(key, value) ==
    IF key = "location"
    THEN IF value.t \in {"null", "undefined"}
         THEN Throw("TypeError: Cannot read property 'type'")
         ELSE IF Prop(value, "type") = Str("Point")
              THEN Ok(JSONstringify(value))
              ELSE Ok(Arr(<<Prop(value, "latitude"), Prop(value, "longitude")>>))
    ELSE IF key = "groups"
    THEN CASE value = Str("single") -> Ok(Str("group_1"))
           [] value = Str("pair") -> Ok(Str("group_2"))
           [] value = Str("group") -> Ok(Str("group_3-7"))
           [] value = Str("crowd") -> Ok(Str("group_8+"))
           [] OTHER -> Throw("invalid value for groups")
    ELSE IF key = "age"
    THEN CASE value = Str("child") -> Ok(Str("0-14"))
           [] value = Str("young") -> Ok(Str("15-24"))
           [] value = Str("adult") -> Ok(Str("25-64"))
           [] value = Str("elderly") -> Ok(Str("65+"))
           [] OTHER -> Throw("invalid value for age")
    ELSE IF key = "activities"
    THEN AsString(javascriptArrayToPostgresArray(IF value.t = "array" THEN value.xs ELSE <<value>>))
    ELSE IF key \in validDataPointProperties
    THEN Ok(Str(TemplateString(value)))
    ELSE Throw("Unexpected key in data point")

\* Faulty variant: an age or groups label outside the table is bound as it is
processDataPointToValue_Unchecked(key, value) ==
    IF key = "location"
    THEN IF value.t \in {"null", "undefined"}
         THEN Throw("TypeError: Cannot read property 'type'")
         ELSE IF Prop(value, "type") = Str("Point")
              THEN Ok(JSONstringify(value))
              ELSE Ok(Arr(<<Prop(value, "longitude"), Prop(value, "latitude")>>))
    ELSE IF key = "groups"
    THEN CASE value = Str("single") -> Ok(Str("group_1"))
           [] value = Str("pair") -> Ok(Str("group_2"))
           [] value = Str("group") -> Ok(Str("group_3-7"))
           [] value = Str("crowd") -> Ok(Str("group_8+"))
           [] OTHER -> Ok(Str(TemplateString(value)))
    ELSE IF key = "age"
    THEN CASE value = Str("child") -> Ok(Str("0-14"))
           [] value = Str("young") -> Ok(Str("15-24"))
           [] value = Str("adult") -> Ok(Str("25-64"))
           [] value = Str("elderly") -> Ok(Str("65+"))
           [] OTHER -> Ok(Str(TemplateString(value)))
    ELSE IF key = "activities"
    THEN AsString(javascriptArrayToPostgresArray(IF value.t = "array" THEN value.xs ELSE <<value>>))
    ELSE IF key \in validDataPointProperties
    THEN Ok(Str(TemplateString(value)))
    ELSE Throw("Unexpected key in data point")

processDataPointToValue(key, value) ==
    IF key = "location"
    THEN IF value.t \in {"null", "undefined"}
         THEN Throw("TypeError: Cannot read property 'type'")
         ELSE IF Prop(value, "type") = Str("Point")
              THEN Ok(JSONstringify(value))
              ELSE Ok(Arr(<<Prop(value, "longitude"), Prop(value, "latitude")>>))
    ELSE IF key = "groups"
    THEN CASE value = Str("single") -> Ok(Str("group_1"))
           [] value = Str("pair") -> Ok(Str("group_2"))
           [] value = Str("group") -> Ok(Str("group_3-7"))
           [] value = Str("crowd") -> Ok(Str("group_8+"))
           [] OTHER -> Throw("invalid value for groups")
    ELSE IF key = "age"
    THEN CASE value = Str("child") -> Ok(Str("0-14"))
           [] value = Str("young") -> Ok(Str("15-24"))
           [] value = Str("adult") -> Ok(Str("25-64"))
           [] value = Str("elderly") -> Ok(Str("65+"))
           [] OTHER -> Throw("invalid value for age")
    ELSE IF key = "activities"
    THEN AsString(javascriptArrayToPostgresArray(IF value.t = "array" THEN value.xs ELSE <<value>>))
    ELSE IF key \in validDataPointProperties
    THEN Ok(Str(TemplateString(value)))
    ELSE Throw("Unexpected key in data point")

\* The accumulator after a key, given its binding b and its value v (each an
\* Ok or a Throw)
Accumulate(acc, key, b, v) ==
    IF b.threw THEN b
    ELSE IF v.threw THEN v
    ELSE Ok([columns |-> Append(acc.columns, key),
             values |-> acc.values \o wrapInArray(v.value),
             parameterBindings |-> Append(acc.parameterBindings, b.value.binding),
             index |-> b.value.index])

processDataPointToPreparedStatement(acc, curr) ==
    Accumulate(acc, curr.key,
               convertKeyToParamterBinding(acc.index, curr.key, curr.value),
               processDataPointToValue(curr.key, curr.value))

\* kvs.reduce(f, acc), where an exception of f ends the reduce; acc is an Ok
\* or the Throw
RECURSIVE Reduce(_, _)
Reduce(kvs, acc) ==
    IF Len(kvs) = 0 \/ acc.threw THEN acc
    ELSE Reduce(Tail(kvs), processDataPointToPreparedStatement(acc.value, Head(kvs)))

processKeyAndValues(dataPoint) ==
    Reduce(dataPoint, Ok([columns |-> <<>>, values |-> <<>>, parameterBindings |-> <<>>, index |-> 1]))

deleteNonGehlFields(o) ==
    LET unwanted(e) == e.key \notin allGehlFieldsStrings \/ e.value = Null
        Keep(e) == ~unwanted(e)
    IN SelectSeq(o, Keep)

\* Faulty variant: the conflict clause updates nothing (DO NOTHING)
UpsertQuery_DoNothing(r) ==
    IF r.threw THEN r
    ELSE Ok([query |-> [columns |-> r.value.columns,
                        parameterBindings |-> r.value.parameterBindings,
                        conflict |-> "data_point_id",
                        setColumns |-> <<>>,
                        setBindings |-> <<>>],
             values |-> r.value.values])

\* The statement after 'INSERT INTO <table>': the column list and placeholder
\* list of the VALUES part, the conflict target, and the column list and
\* placeholder list of the DO UPDATE SET part.
UpsertQuery(r) ==
    IF r.threw THEN r
    ELSE Ok([query |-> [columns |-> r.value.columns,
                        parameterBindings |-> r.value.parameterBindings,
                        conflict |-> "data_point_id",
                        setColumns |-> r.value.columns,
                        setBindings |-> r.value.parameterBindings],
             values |-> r.value.values])

\* Faulty variant: every key of the record becomes a column, bound as text
transformToPostgresInsert_Unfiltered(surveyId, dataPoint) ==
    LET o == Put(Put(dataPoint, "survey_id", surveyId), "data_point_id", Get(dataPoint, "data_point_id"))
    IN UpsertQuery(Ok([columns |-> [i \in 1..Len(o) |-> o[i].key],
                       values |-> [i \in 1..Len(o) |-> Str(TemplateString(o[i].value))],
                       parameterBindings |-> [i \in 1..Len(o) |-> Binding("", <<i>>)],
                       index |-> Len(o) + 1]))

\* Faulty variant: the survey is not set after the strip
transformToPostgresInsert_NoSurveyId(surveyId, dataPoint) ==
    UpsertQuery(processKeyAndValues(
        Put(deleteNonGehlFields(dataPoint), "data_point_id", Get(dataPoint, "data_point_id"))))

transformToPostgresInsert(surveyId, dataPoint) ==
    UpsertQuery(processKeyAndValues(
        Put(Put(deleteNonGehlFields(dataPoint), "survey_id", surveyId),
            "data_point_id", Get(dataPoint, "data_point_id"))))

\* ------------------------------------------------------------------------
\* Table provisioner
\* ------------------------------------------------------------------------
RECURSIVE Concat(_)
Concat(ss) == IF Len(ss) = 0 THEN "" ELSE Head(ss) \o Concat(Tail(ss))

\* A studyIdToTablename that keeps the hyphens
studyIdToTablename_Verbatim(studyId) == "data_collection.study_" \o Concat(studyId)

\* A study id is the sequence of its characters
studyIdToTablename(studyId) ==
    LET NotHyphen(c) == c # "-"
    IN "data_collection.study_" \o Concat(SelectSeq(studyId, NotHyphen))

\* A column definition of a CREATE TABLE statement
Col(name, type, notNull, primaryKey, references) ==
    [name |-> name, type |-> type, notNull |-> notNull, primaryKey |-> primaryKey,
     references |-> references]

\* Faulty variant: the minimal table also defines the age column
genderLocationTable_WithAge ==
    << Col("survey_id", "UUID", TRUE, FALSE, "data_collection.survey(survey_id)"),
       Col("data_point_id", "UUID", TRUE, TRUE, ""),
       Col("gender", "data_collection.gender", FALSE, FALSE, ""),
       Col("age", "varchar(64)", FALSE, FALSE, ""),
       Col("creation_date", "timestamptz", FALSE, FALSE, ""),
       Col("last_updated", "timestamptz", FALSE, FALSE, ""),
       Col("location", "geometry", TRUE, FALSE, "") >>

genderLocationTable ==
    << Col("survey_id", "UUID", TRUE, FALSE, "data_collection.survey(survey_id)"),
       Col("data_point_id", "UUID", TRUE, TRUE, ""),
       Col("gender", "data_collection.gender", FALSE, FALSE, ""),
       Col("creation_date", "timestamptz", FALSE, FALSE, ""),
       Col("last_updated", "timestamptz", FALSE, FALSE, ""),
       Col("location", "geometry", TRUE, FALSE, "") >>

allGehlFieldsTable ==
    << Col("survey_id", "UUID", TRUE, FALSE, "data_collection.survey(survey_id)"),
       Col("data_point_id", "UUID", TRUE, TRUE, ""),
       Col("gender", "data_collection.gender", FALSE, FALSE, ""),
       Col("age", "varchar(64)", FALSE, FALSE, ""),
       Col("mode", "data_collection.mode", FALSE, FALSE, ""),
       Col("posture", "data_collection.posture", FALSE, FALSE, ""),
       Col("activities", "data_collection.activities[]", FALSE, FALSE, ""),
       Col("groups", "data_collection.groups", FALSE, FALSE, ""),
       Col("object", "data_collection.object", FALSE, FALSE, ""),
       Col("location", "geometry", TRUE, FALSE, ""),
       Col("creation_date", "timestamptz", FALSE, FALSE, ""),
       Col("last_updated", "timestamptz", FALSE, FALSE, ""),
       Col("note", "text", FALSE, FALSE, "") >>

\* Faulty variant: any other selection falls back to the minimal table
createNewTableFromGehlFields_Fallback(study, tablename, fields) ==
    IF setString(NewSet(fields)) = setString(allGehlFields)
    THEN Ok([kind |-> "CREATE TABLE", tablename |-> tablename, columns |-> allGehlFieldsTable])
    ELSE Ok([kind |-> "CREATE TABLE", tablename |-> tablename, columns |-> genderLocationTable])

createNewTableFromGehlFields(study, tablename, fields) ==
    LET asSet == NewSet(fields)
        comparisionString == setString(asSet)
    IN CASE comparisionString = setString(genderLocation) ->
                Ok([kind |-> "CREATE TABLE", tablename |-> tablename, columns |-> genderLocationTable])
         [] comparisionString = setString(allGehlFields) ->
                Ok([kind |-> "CREATE TABLE", tablename |-> tablename, columns |-> allGehlFieldsTable])
         [] OTHER -> Throw("no table possible for selected fields")

\* ------------------------------------------------------------------------
\* State
\* ------------------------------------------------------------------------
VARIABLES
    users,      \* rows of public.users: [user_id, email]
    study,      \* rows of data_collection.study: [study_id, tablename, table_definition]
    survey,     \* rows of data_collection.survey: [survey_id, study_id, user_id]
    tables,     \* the study data tables: tablename -> [columns, rows]
    call,       \* the createStudy call in flight, or [pc |-> "idle"]
    pool,       \* data-point statements handed to pool.query and not yet executed
    last,       \* the latest event: a call that returned or threw, or a settled query
    surveyors,  \* rows of data_collection.surveyors: [user_id, study_id]
    locations,  \* rows of data_collection.location: [location_id, geometry]
    firestore,  \* the Firestore collection 'study': study id -> document
    grants,     \* the addUserToStudyByEmail calls: call -> position and locals
    signUpState,\* the observable sign-up form state of stores/signup.ts
    authState,  \* the observable of stores/auth: [isAuth]
    uiState,    \* what the user is shown: [snackBar, uri]
    task        \* the signUpUser or logInUserGoogleOAuth call in flight, or Idle

vars == <<users, study, survey, tables, call, pool, last, surveyors, locations,
          firestore, grants, signUpState, authState, uiState, task>>
db == <<users, study, survey, tables, surveyors, locations>>
client == <<firestore, grants, signUpState, authState, uiState, task>>

\* ------------------------------------------------------------------------
\* Bounds and input sets
\* ------------------------------------------------------------------------
MaxInflight == 2
MaxKeys == 2
MaxFieldsLen == 2
MaxStudies == 1
MaxGrants == 2

StudyIds == {<<"a", "-", "b">>, <<"a", "b">>}
SurveyIds == {"s1"}
DataPointIds == {"d1", "d2"}
Emails == {"e1"}
UserIds == {"u1"}
\* the strings PostgreSQL accepts as a UUID
\* Further well-formed identifiers: s2, a survey id no action creates, and u2,
\* a second uuid.v4()
OtherSurveyIds == {"s2"}
OtherUserIds == {"u2"}
UuidStrings == SurveyIds \cup DataPointIds \cup UserIds \cup OtherSurveyIds \cup OtherUserIds

Range(f) == {f[i] : i \in DOMAIN f}

\* ------------------------------------------------------------------------
\* PostgreSQL: execution of the statements the layer sends
\* ------------------------------------------------------------------------
SqlNull == [t |-> "NULL"]
Geometry(x, y) == [t |-> "geometry", x |-> x, y |-> y]

\* node-postgres binds null and undefined as NULL
SqlValue(v) == IF v.t \in {"null", "undefined"} THEN SqlNull ELSE v

ST_GeomFromGeoJSON(v) ==
    IF v = SqlNull THEN Ok(SqlNull)
    ELSE IF v.t = "string" /\ "json" \in DOMAIN v
            /\ Prop(v.json, "type") = Str("Point")
            /\ Prop(v.json, "coordinates").t = "array"
            /\ Len(Prop(v.json, "coordinates").xs) = 2
            /\ \A i \in 1..2 : Prop(v.json, "coordinates").xs[i].t = "number"
    THEN Ok(Geometry(v.json.coordinates.xs[1].n, v.json.coordinates.xs[2].n))
    ELSE Throw("invalid GeoJSON representation")

\* ST_GeomFromText(text, srid): the first argument must be well-known text
ST_GeomFromText(wkt, srid) ==
    IF wkt = SqlNull \/ srid = SqlNull THEN Ok(SqlNull)
    ELSE IF wkt.t = "string" /\ "wkt" \in DOMAIN wkt
    THEN Ok(Geometry(wkt.wkt[1], wkt.wkt[2]))
    ELSE Throw("parse error - invalid geometry")

EvalBinding(b, values) ==
    IF \E i \in 1..Len(b.params) : b.params[i] \notin 1..Len(values)
    THEN Throw("there is no parameter")
    ELSE CASE b.fn = "ST_GeomFromGeoJSON" -> ST_GeomFromGeoJSON(SqlValue(values[b.params[1]]))
           [] b.fn = "ST_GeomFromText" ->
                ST_GeomFromText(SqlValue(values[b.params[1]]), SqlValue(values[b.params[2]]))
           [] OTHER -> Ok(SqlValue(values[b.params[1]]))

\* The value as stored in a column of the given type, or the cast error
CastTo(type, v) ==
    IF v = SqlNull THEN Ok(v)
    ELSE CASE type = "UUID" ->
                IF v.t = "string" /\ "s" \in DOMAIN v /\ v.s \in UuidStrings
                THEN Ok(v) ELSE Throw("invalid input syntax for type uuid")
           [] type = "geometry" ->
                IF v.t = "geometry" THEN Ok(v) ELSE Throw("parse error - invalid geometry")
           [] OTHER -> Ok(v)

ColumnNames(t) == {t.columns[i].name : i \in 1..Len(t.columns)}
ColDef(t, c) == CHOOSE d \in Range(t.columns) : d.name = c
Placeholders(bindings) == UNION {Range(bindings[i].params) : i \in 1..Len(bindings)}

\* The row built from a column list and its evaluated expressions over `base`
Assign(t, base, cols, vals) ==
    [c \in ColumnNames(t) |->
        IF c \in Range(cols) THEN vals[CHOOSE i \in 1..Len(cols) : cols[i] = c] ELSE base[c]]

\* Constraint violations of a row of table t, given the other rows of t
RowError(t, row, others) ==
    IF \E c \in ColumnNames(t) : ColDef(t, c).notNull /\ row[c] = SqlNull
    THEN "null value in column violates not-null constraint"
    ELSE IF \E c \in ColumnNames(t) : ColDef(t, c).primaryKey /\ \E r \in others : r[c] = row[c]
    THEN "duplicate key value violates unique constraint"
    ELSE IF \E c \in ColumnNames(t) :
              /\ ColDef(t, c).references = "data_collection.survey(survey_id)"
              /\ row[c] # SqlNull
              /\ row[c].s \notin {s.survey_id : s \in survey}
    THEN "violates foreign key constraint"
    ELSE ""

\* INSERT INTO tablename (columns) VALUES (parameterBindings)
\*   ON CONFLICT(conflict) DO UPDATE SET (setColumns) = (setBindings)
\* Ok(the table's new rows), or the error PostgreSQL raises.
ExecInsert(q) ==
    IF q.tablename \notin DOMAIN tables THEN Throw("relation does not exist")
    ELSE
    LET t == tables[q.tablename]
        st == q.query
        evalIns == [i \in 1..Len(st.parameterBindings) |-> EvalBinding(st.parameterBindings[i], q.values)]
        evalSet == [i \in 1..Len(st.setBindings) |-> EvalBinding(st.setBindings[i], q.values)]
    IN
    IF \E c \in Range(st.columns) \cup Range(st.setColumns) \cup {st.conflict} : c \notin ColumnNames(t)
    THEN Throw("column does not exist")
    ELSE IF Len(st.columns) # Len(st.parameterBindings) \/ Len(st.setColumns) # Len(st.setBindings)
    THEN Throw("INSERT has more target columns than expressions")
    ELSE IF Placeholders(st.parameterBindings) \cup Placeholders(st.setBindings) # 1..Len(q.values)
    THEN Throw("bind message supplies the wrong number of parameters")
    ELSE IF ~ColDef(t, st.conflict).primaryKey
    THEN Throw("there is no unique constraint matching the ON CONFLICT specification")
    ELSE IF \E i \in 1..Len(evalIns) : evalIns[i].threw
    THEN evalIns[CHOOSE i \in 1..Len(evalIns) : evalIns[i].threw]
    ELSE IF \E i \in 1..Len(evalSet) : evalSet[i].threw
    THEN evalSet[CHOOSE i \in 1..Len(evalSet) : evalSet[i].threw]
    ELSE
    LET castIns == [i \in 1..Len(evalIns) |-> CastTo(ColDef(t, st.columns[i]).type, evalIns[i].value)]
        castSet == [i \in 1..Len(evalSet) |-> CastTo(ColDef(t, st.setColumns[i]).type, evalSet[i].value)]
    IN
    IF \E i \in 1..Len(castIns) : castIns[i].threw
    THEN castIns[CHOOSE i \in 1..Len(castIns) : castIns[i].threw]
    ELSE IF \E i \in 1..Len(castSet) : castSet[i].threw
    THEN castSet[CHOOSE i \in 1..Len(castSet) : castSet[i].threw]
    ELSE
    LET proposed == Assign(t, [c \in ColumnNames(t) |-> SqlNull], st.columns,
                           [i \in 1..Len(castIns) |-> castIns[i].value])
        conflicting == {r \in t.rows : r[st.conflict] = proposed[st.conflict]}
    IN
    \* the proposed row's NOT NULL constraints are checked before the conflict
    IF \E c \in ColumnNames(t) : ColDef(t, c).notNull /\ proposed[c] = SqlNull
    THEN Throw("null value in column violates not-null constraint")
    ELSE IF conflicting = {}
    THEN IF RowError(t, proposed, t.rows) # ""
         THEN Throw(RowError(t, proposed, t.rows))
         ELSE Ok(t.rows \cup {proposed})
    ELSE
    LET old == CHOOSE r \in conflicting : TRUE
        updated == Assign(t, old, st.setColumns, [i \in 1..Len(castSet) |-> castSet[i].value])
    IN IF RowError(t, updated, t.rows \ {old}) # ""
       THEN Throw(RowError(t, updated, t.rows \ {old}))
       ELSE Ok((t.rows \ {old}) \cup {updated})

\* ------------------------------------------------------------------------
\* Operations
\* ------------------------------------------------------------------------
Idle == [pc |-> "idle"]
NoTables == [n \in {} |-> n]

\* The browser side before any call. A string typed into the sign-up form is
\* the sequence of its characters.
Absent == [exists |-> FALSE]
Document(data) == [exists |-> TRUE, data |-> data]
Calls == 1..MaxGrants
InitialSignUpState ==
    [email |-> <<>>, password |-> <<>>, passwordConfirmation |-> <<>>,
     emailErrorMessage |-> "", passwordErrorMessage |-> "",
     passwordConfirmationErrorMessage |-> ""]
InitClient ==
    /\ firestore = [s \in StudyIds |-> Absent]
    /\ grants = [c \in Calls |-> Idle]
    /\ signUpState = InitialSignUpState
    /\ authState = [isAuth |-> FALSE]
    /\ uiState = [snackBar |-> "", uri |-> ""]
    /\ task = Idle

Init ==
    /\ users = {}
    /\ study = {}
    /\ survey = {}
    /\ tables = NoTables
    /\ call = Idle
    /\ pool = {}
    /\ last = [op |-> "none"]
    /\ surveyors = {}
    /\ locations = {}
    /\ InitClient

\* createUserFromEmail: one INSERT INTO users; users.email is unique
\* (authenticateOAuthUser's ON CONFLICT (email) rests on that index)
CreateUserFromEmail(email, userId, fail) ==
    /\ userId \notin {u.user_id : u \in users}
    /\ IF fail \/ email \in {u.email : u \in users}
       THEN /\ last' = [op |-> "createUserFromEmail", email |-> email, threw |-> TRUE]
            /\ UNCHANGED users
       ELSE /\ users' = users \cup {[user_id |-> userId, email |-> email]}
            /\ last' = [op |-> "createUserFromEmail", email |-> email, threw |-> FALSE]
    /\ UNCHANGED <<study, survey, tables, call, pool, surveyors, locations, client>>

\* createNewSurveyForStudy: INSERT INTO survey ... SELECT ... FROM t JOIN users
\* ON t.user_email = u.email; one row per matching user. survey_id is unique
\* (the data tables reference it).
CreateNewSurveyForStudy(surveyId, studyId, userEmail, fail) ==
    LET rows == {[survey_id |-> surveyId, study_id |-> studyId, user_id |-> u.user_id] :
                    u \in {x \in users : x.email = userEmail}}
    IN /\ IF fail \/ (rows # {} /\ surveyId \in {r.survey_id : r \in survey})
          THEN /\ last' = [op |-> "createNewSurveyForStudy", surveyId |-> surveyId, threw |-> TRUE]
               /\ UNCHANGED survey
          ELSE /\ survey' = survey \cup rows
               /\ last' = [op |-> "createNewSurveyForStudy", surveyId |-> surveyId, threw |-> FALSE]
       /\ UNCHANGED <<users, study, tables, call, pool, surveyors, locations, client>>

\* createStudy up to its first await, given the result of
\* createNewTableFromGehlFields: if that threw, so does createStudy; otherwise
\* the metadata INSERT is handed to the pool
CreateStudyQueries(studyId, fields, newStudyMetadataQuery, newStudyDataTableQuery) ==
    IF newStudyDataTableQuery.threw
    THEN /\ last' = [op |-> "createStudy", studyId |-> studyId, fields |-> fields,
                     threw |-> TRUE, error |-> newStudyDataTableQuery.error, sent |-> <<>>]
         /\ UNCHANGED call
    ELSE /\ call' = [pc |-> "metadata", studyId |-> studyId, fields |-> fields,
                     newStudyMetadataQuery |-> newStudyMetadataQuery,
                     newStudyDataTableQuery |-> newStudyDataTableQuery.value,
                     sent |-> <<newStudyMetadataQuery>>]
         /\ UNCHANGED last

CreateStudy(studyId, fields) ==
    /\ call = Idle
    /\ CreateStudyQueries(studyId, fields,
            [kind |-> "INSERT INTO data_collection.study", study_id |-> studyId,
             table_definition |-> fields, tablename |-> studyIdToTablename(studyId)],
            createNewTableFromGehlFields([studyId |-> studyId], studyIdToTablename(studyId), fields))
    /\ UNCHANGED <<users, study, survey, tables, pool, surveyors, locations, client>>

\* Faulty variant: the CREATE TABLE is sent whether or not the metadata INSERT
\* succeeded
CreateStudyMetadata_Proceeds(fail) ==
    /\ call.pc = "metadata"
    /\ LET q == call.newStudyMetadataQuery
       IN IF fail \/ q.study_id \in {r.study_id : r \in study}
          THEN UNCHANGED study
          ELSE study' = study \cup {[study_id |-> q.study_id, tablename |-> q.tablename,
                                     table_definition |-> q.table_definition]}
    /\ call' = [call EXCEPT !.pc = "table",
                            !.sent = Append(call.sent, call.newStudyDataTableQuery)]
    /\ UNCHANGED <<users, survey, tables, pool, last, surveyors, locations, client>>

\* The metadata INSERT settles; on success the CREATE TABLE is handed to the pool
CreateStudyMetadata(fail) ==
    /\ call.pc = "metadata"
    /\ LET q == call.newStudyMetadataQuery
       IN IF fail \/ q.study_id \in {r.study_id : r \in study}
          THEN /\ last' = [op |-> "createStudy", studyId |-> call.studyId, fields |-> call.fields,
                           threw |-> TRUE, error |-> "metadata insert failed", sent |-> call.sent]
               /\ call' = Idle
               /\ UNCHANGED study
          ELSE /\ study' = study \cup {[study_id |-> q.study_id, tablename |-> q.tablename,
                                        table_definition |-> q.table_definition]}
               /\ call' = [call EXCEPT !.pc = "table",
                                       !.sent = Append(call.sent, call.newStudyDataTableQuery)]
               /\ UNCHANGED last
    /\ UNCHANGED <<users, survey, tables, pool, surveyors, locations, client>>

\* The CREATE TABLE settles and createStudy returns or throws
CreateStudyTable(fail) ==
    /\ call.pc = "table"
    /\ LET q == call.newStudyDataTableQuery
       IN IF fail \/ q.tablename \in DOMAIN tables
          THEN /\ last' = [op |-> "createStudy", studyId |-> call.studyId, fields |-> call.fields,
                           threw |-> TRUE, error |-> "create table failed", sent |-> call.sent]
               /\ UNCHANGED tables
          ELSE /\ tables' = (q.tablename :> [columns |-> q.columns, rows |-> {}]) @@ tables
               /\ last' = [op |-> "createStudy", studyId |-> call.studyId, fields |-> call.fields,
                           threw |-> FALSE, error |-> "", sent |-> call.sent]
    /\ call' = Idle
    /\ UNCHANGED <<users, study, survey, pool, surveyors, locations, client>>

\* Faulty variant: one placeholder counter shared by the calls, so that the
\* placeholders of a statement go on from those of the statements still pending
SharedIndex == Cardinality(UNION {{<<q, i>> : i \in 1..Len(q.values)} : q \in pool})
Shifted(query, k) ==
    [query EXCEPT !.parameterBindings =
        [i \in 1..Len(@) |-> [@[i] EXCEPT !.params = [j \in 1..Len(@) |-> @[j] + k]]]]
IssueInsert_SharedCounter(tablename, surveyId, dataPoint, r) ==
    IF r.threw
    THEN /\ last' = [op |-> "addDataPoint", surveyId |-> surveyId, dataPoint |-> dataPoint,
                     threw |-> TRUE, error |-> r.error, sent |-> <<>>]
         /\ UNCHANGED pool
    ELSE /\ pool' = pool \cup {[kind |-> "INSERT INTO", tablename |-> tablename,
                                query |-> Shifted(r.value.query, SharedIndex),
                                values |-> r.value.values]}
         /\ last' = [op |-> "addDataPoint", surveyId |-> surveyId, dataPoint |-> dataPoint,
                     threw |-> FALSE, error |-> "",
                     sent |-> <<[kind |-> "INSERT INTO", tablename |-> tablename,
                                 query |-> Shifted(r.value.query, SharedIndex),
                                 values |-> r.value.values]>>]

\* The end of an add-data-point call, given the result r of
\* transformToPostgresInsert: its exception, or the statement handed to pool.query
IssueInsert(tablename, surveyId, dataPoint, r) ==
    IF r.threw
    THEN /\ last' = [op |-> "addDataPoint", surveyId |-> surveyId, dataPoint |-> dataPoint,
                     threw |-> TRUE, error |-> r.error, sent |-> <<>>]
         /\ UNCHANGED pool
    ELSE /\ pool' = pool \cup {[kind |-> "INSERT INTO", tablename |-> tablename,
                                query |-> r.value.query, values |-> r.value.values]}
         /\ last' = [op |-> "addDataPoint", surveyId |-> surveyId, dataPoint |-> dataPoint,
                     threw |-> FALSE, error |-> "",
                     sent |-> <<[kind |-> "INSERT INTO", tablename |-> tablename,
                                 query |-> r.value.query, values |-> r.value.values]>>]

AddDataPointToSurveyWithStudyId(studyId, surveyId, dataPoint) ==
    /\ IssueInsert(studyIdToTablename(studyId), surveyId, dataPoint,
                   transformToPostgresInsert(Str(surveyId), Put(dataPoint, "survey_id", Str(surveyId))))
    /\ UNCHANGED <<users, study, survey, tables, call, surveyors, locations, client>>

\* The promise of a data-point statement settles with r, the outcome of its
\* execution, or with a connection error
Settle(q, fail, r) ==
    IF fail
    THEN /\ last' = [op |-> "query", statement |-> q, threw |-> TRUE, error |-> "connection error"]
         /\ UNCHANGED tables
    ELSE IF r.threw
    THEN /\ last' = [op |-> "query", statement |-> q, threw |-> TRUE, error |-> r.error]
         /\ UNCHANGED tables
    ELSE /\ last' = [op |-> "query", statement |-> q, threw |-> FALSE, error |-> ""]
         /\ tables' = [tables EXCEPT ![q.tablename].rows = r.value]

\* PostgreSQL executes one pending data-point statement
DbExec(q, fail) ==
    /\ q \in pool
    /\ pool' = pool \ {q}
    /\ Settle(q, fail, ExecInsert(q))
    /\ UNCHANGED <<users, study, survey, call, surveyors, locations, client>>

\* data_collection.survey_to_tablename: the table name of each survey's study
survey_to_tablename ==
    {[survey_id |-> p[1].survey_id, tablename |-> p[2].tablename] :
        p \in {x \in survey \X study : x[1].study_id = x[2].study_id}}

\* A by-survey call ends with an exception of getTablenameForSurveyId
LookupThrew(q, error) ==
    /\ pool' = pool \ {q}
    /\ last' = [op |-> q.then.op, surveyId |-> q.surveyId, threw |-> TRUE, error |-> error,
                sent |-> <<q>>]

\* addDataPointToSurveyNoStudyId after its lookup, given the result r of
\* transformToPostgresInsert: its exception, or the statement handed to pool.query
IssueInsertNoStudyId(q, tablename, r) ==
    IF r.threw
    THEN /\ pool' = pool \ {q}
         /\ last' = [op |-> q.then.op, surveyId |-> q.surveyId,
                     dataPoint |-> q.then.dataPoint, threw |-> TRUE,
                     error |-> r.error, sent |-> <<q>>]
    ELSE /\ pool' = (pool \ {q}) \cup {[kind |-> "INSERT INTO", tablename |-> tablename,
                                        query |-> r.value.query, values |-> r.value.values]}
         /\ last' = [op |-> q.then.op, surveyId |-> q.surveyId,
                     dataPoint |-> q.then.dataPoint, threw |-> FALSE, error |-> "",
                     sent |-> <<q, [kind |-> "INSERT INTO", tablename |-> tablename,
                                    query |-> r.value.query, values |-> r.value.values]>>]

\* A by-survey call goes on with the table name its lookup returned
LookupReturned(q, tablename) ==
    CASE q.then.op = "addDataPointToSurveyNoStudyId" ->
            IssueInsertNoStudyId(q, tablename,
                transformToPostgresInsert(Str(q.surveyId),
                    Put(q.then.dataPoint, "survey_id", Str(q.surveyId))))
      [] q.then.op = "retrieveDataPointsForSurvey" ->
            /\ pool' = (pool \ {q}) \cup {[kind |-> "SELECT FROM", tablename |-> tablename,
                                           surveyId |-> q.surveyId]}
            /\ last' = [op |-> "getTablenameForSurveyId", surveyId |-> q.surveyId,
                        threw |-> FALSE, tablename |-> tablename]
      [] q.then.op = "deleteDataPoint" ->
            /\ pool' = (pool \ {q}) \cup {[kind |-> "DELETE FROM", tablename |-> tablename,
                                           surveyId |-> q.surveyId,
                                           dataPointId |-> q.then.dataPointId]}
            /\ last' = [op |-> "getTablenameForSurveyId", surveyId |-> q.surveyId,
                        threw |-> FALSE, tablename |-> tablename]

\* A getTablenameForSurveyId that derives a name when the index has no row
TablenameOf_Derived(q, rows) ==
    IF Cardinality(rows) = 1
    THEN LookupReturned(q, (CHOOSE r \in rows : TRUE).tablename)
    ELSE LookupReturned(q, studyIdToTablename(<<q.surveyId>>))

\* getTablenameForSurveyId, given the rows its query returned
TablenameOf(q, rows) ==
    IF Cardinality(rows) = 1
    THEN LookupReturned(q, (CHOOSE r \in rows : TRUE).tablename)
    ELSE LookupThrew(q, "no tablename found for surveyId")

\* The lookup of a by-survey call settles
GetTablenameForSurveyId(q, fail) ==
    /\ q \in pool
    /\ q.kind = "SELECT tablename"
    /\ IF fail
       THEN LookupThrew(q, "connection error")
       ELSE TablenameOf(q, {r \in survey_to_tablename : r.survey_id = q.surveyId})
    /\ UNCHANGED <<users, study, survey, tables, call, surveyors, locations, client>>

\* The three by-survey calls up to their first await: the lookup is sent
AddDataPointToSurveyNoStudyId(surveyId, dataPoint) ==
    /\ pool' = pool \cup {[kind |-> "SELECT tablename", surveyId |-> surveyId,
                           then |-> [op |-> "addDataPointToSurveyNoStudyId",
                                     dataPoint |-> dataPoint]]}
    /\ UNCHANGED <<users, study, survey, tables, call, last, surveyors, locations, client>>

RetrieveDataPointsForSurvey(surveyId) ==
    /\ pool' = pool \cup {[kind |-> "SELECT tablename", surveyId |-> surveyId,
                           then |-> [op |-> "retrieveDataPointsForSurvey"]]}
    /\ UNCHANGED <<users, study, survey, tables, call, last, surveyors, locations, client>>

DeleteDataPoint(surveyId, dataPointId) ==
    /\ pool' = pool \cup {[kind |-> "SELECT tablename", surveyId |-> surveyId,
                           then |-> [op |-> "deleteDataPoint", dataPointId |-> dataPointId]]}
    /\ UNCHANGED <<users, study, survey, tables, call, last, surveyors, locations, client>>

\* SELECT data_point_id, gender, ..., ST_AsGeoJSON(location)::json as loc, note
retrievedColumns ==
    <<"data_point_id", "gender", "age", "mode", "posture", "activities", "groups", "object",
      "location", "note">>
ST_AsGeoJSON(g) == IF g = SqlNull THEN SqlNull ELSE GeoPoint(g.x, g.y)

\* Ok(the records retrieveDataPointsForSurvey returns), or the error of its query
ExecSelect(q) ==
    IF q.tablename \notin DOMAIN tables THEN Throw("relation does not exist")
    ELSE IF \E i \in 1..Len(retrievedColumns) :
                retrievedColumns[i] \notin ColumnNames(tables[q.tablename])
    THEN Throw("column does not exist")
    ELSE Ok({[c \in Range(retrievedColumns) |->
                IF c = "location" THEN ST_AsGeoJSON(r[c]) ELSE r[c]] :
                    r \in tables[q.tablename].rows})

\* The SELECT of retrieveDataPointsForSurvey settles and the call returns or throws
RetrieveSettle(q, fail, r) ==
    IF fail
    THEN last' = [op |-> "retrieveDataPointsForSurvey", surveyId |-> q.surveyId,
                  threw |-> TRUE, error |-> "connection error", rows |-> {}, sent |-> <<q>>]
    ELSE IF r.threw
    THEN last' = [op |-> "retrieveDataPointsForSurvey", surveyId |-> q.surveyId,
                  threw |-> TRUE, error |-> r.error, rows |-> {}, sent |-> <<q>>]
    ELSE last' = [op |-> "retrieveDataPointsForSurvey", surveyId |-> q.surveyId,
                  threw |-> FALSE, error |-> "", rows |-> r.value, sent |-> <<q>>]

DbSelect(q, fail) ==
    /\ q \in pool
    /\ q.kind = "SELECT FROM"
    /\ pool' = pool \ {q}
    /\ RetrieveSettle(q, fail, ExecSelect(q))
    /\ UNCHANGED <<users, study, survey, tables, call, surveyors, locations, client>>

\* DELETE FROM tablename WHERE data_point_id = '<dataPointId>': Ok(the rows
\* deleted), or the error PostgreSQL raises
ExecDelete(q) ==
    IF q.tablename \notin DOMAIN tables THEN Throw("relation does not exist")
    ELSE IF q.dataPointId \notin UuidStrings THEN Throw("invalid input syntax for type uuid")
    ELSE Ok({r \in tables[q.tablename].rows : r["data_point_id"] = Str(q.dataPointId)})

\* A deleteDataPoint that ignores the row count of its DELETE
DeleteSettle_AnyRowCount(q, fail, r) ==
    IF fail \/ r.threw
    THEN /\ last' = [op |-> "deleteDataPoint", surveyId |-> q.surveyId,
                     dataPointId |-> q.dataPointId, threw |-> TRUE,
                     error |-> IF fail THEN "connection error" ELSE r.error,
                     rowCount |-> 0, sent |-> <<q>>]
         /\ UNCHANGED tables
    ELSE /\ tables' = [tables EXCEPT ![q.tablename].rows = @ \ r.value]
         /\ last' = [op |-> "deleteDataPoint", surveyId |-> q.surveyId,
                     dataPointId |-> q.dataPointId, threw |-> FALSE, error |-> "",
                     rowCount |-> Cardinality(r.value), sent |-> <<q>>]

\* The DELETE of deleteDataPoint settles and the call returns or throws
DeleteSettle(q, fail, r) ==
    IF fail
    THEN /\ last' = [op |-> "deleteDataPoint", surveyId |-> q.surveyId,
                     dataPointId |-> q.dataPointId, threw |-> TRUE,
                     error |-> "connection error", rowCount |-> 0, sent |-> <<q>>]
         /\ UNCHANGED tables
    ELSE IF r.threw
    THEN /\ last' = [op |-> "deleteDataPoint", surveyId |-> q.surveyId,
                     dataPointId |-> q.dataPointId, threw |-> TRUE,
                     error |-> r.error, rowCount |-> 0, sent |-> <<q>>]
         /\ UNCHANGED tables
    ELSE /\ tables' = [tables EXCEPT ![q.tablename].rows = @ \ r.value]
         /\ last' = [op |-> "deleteDataPoint", surveyId |-> q.surveyId,
                     dataPointId |-> q.dataPointId, threw |-> Cardinality(r.value) # 1,
                     error |-> IF Cardinality(r.value) # 1
                               THEN "No data point found to delete" ELSE "",
                     rowCount |-> Cardinality(r.value), sent |-> <<q>>]

DbDelete(q, fail) ==
    /\ q \in pool
    /\ q.kind = "DELETE FROM"
    /\ pool' = pool \ {q}
    /\ DeleteSettle(q, fail, ExecDelete(q))
    /\ UNCHANGED <<users, study, survey, call, surveyors, locations, client>>

\* PostgreSQL executes one pending INSERT of a data point
DbInsert(q, fail) ==
    /\ q.kind = "INSERT INTO"
    /\ DbExec(q, fail)

\* checkUserIdIsSurveyor, given the command and rowCount of its query's result
SurveyorCheck(command, rowCount) ==
    IF command # "SELECT" /\ rowCount # 1 THEN FALSE ELSE TRUE

CheckUserIdIsSurveyor(userId, surveyId, fail) ==
    /\ last' = IF fail
               THEN [op |-> "checkUserIdIsSurveyor", userId |-> userId, surveyId |-> surveyId,
                     threw |-> TRUE, value |-> FALSE]
               ELSE [op |-> "checkUserIdIsSurveyor", userId |-> userId, surveyId |-> surveyId,
                     threw |-> FALSE,
                     value |-> SurveyorCheck("SELECT",
                                  Cardinality({r \in survey : r.user_id = userId
                                                              /\ r.survey_id = surveyId}))]
    /\ UNCHANGED <<users, study, survey, tables, call, pool, surveyors, locations, client>>

\* INSERT INTO data_collection.surveyors (SELECT coalesce((SELECT pu.user_id
\* FROM public.users pu WHERE pu.email = userEmail), zero uuid), studyId):
\* the row inserted, or the foreign-key violation of a user or study that
\* does not exist
FOREIGN_KEY_VIOLATION == "23503"
ZeroUuid == "00000000-0000-0000-0000-000000000000"
SurveyorRow(userEmail, studyId) ==
    [user_id |-> IF \E u \in users : u.email = userEmail
                 THEN (CHOOSE u \in users : u.email = userEmail).user_id
                 ELSE ZeroUuid,
     study_id |-> studyId]
ExecSurveyorInsert(row) ==
    IF row.user_id \notin {u.user_id : u \in users} \/ row.study_id \notin {r.study_id : r \in study}
    THEN Throw(FOREIGN_KEY_VIOLATION)
    ELSE Ok(row)

\* giveUserStudyAccess up to its first await: the access INSERT is sent
GiveUserStudyAccess(userEmail, studyId) ==
    /\ call = Idle
    /\ call' = [pc |-> "access", userEmail |-> userEmail, studyId |-> studyId,
                newUserId |-> Null, sent |-> <<>>]
    /\ UNCHANGED <<users, study, survey, tables, pool, last, surveyors, locations, client>>

\* The end of a giveUserStudyAccess call
AccessReturns(sent) ==
    /\ last' = [op |-> "giveUserStudyAccess", userEmail |-> call.userEmail,
                studyId |-> call.studyId, threw |-> FALSE, error |-> "",
                newUserId |-> call.newUserId, sent |-> sent]
    /\ call' = Idle
AccessThrows(sent, error) ==
    /\ last' = [op |-> "giveUserStudyAccess", userEmail |-> call.userEmail,
                studyId |-> call.studyId, threw |-> TRUE, error |-> error,
                newUserId |-> call.newUserId, sent |-> sent]
    /\ call' = Idle

\* A catch that recovers from every foreign-key violation
Recovers_EveryTime(pc, code) == code = FOREIGN_KEY_VIOLATION

\* Only the catch around the first INSERT tests the code; the retry has none
Recovers(pc, code) == pc = "access" /\ code = FOREIGN_KEY_VIOLATION

\* An access INSERT settles, given its result r
AccessSettle(fail, r) ==
    IF fail
    THEN /\ AccessThrows(Append(call.sent, [statement |-> "INSERT INTO surveyors",
                                            result |-> "connection error"]), "connection error")
         /\ UNCHANGED <<users, surveyors>>
    ELSE IF r.threw /\ Recovers(call.pc, r.error)
    THEN /\ call' = [call EXCEPT !.pc = "createUser",
                                 !.sent = Append(@, [statement |-> "INSERT INTO surveyors",
                                                     result |-> r.error])]
         /\ UNCHANGED <<users, surveyors, last>>
    ELSE IF r.threw
    THEN /\ AccessThrows(Append(call.sent, [statement |-> "INSERT INTO surveyors",
                                            result |-> r.error]), r.error)
         /\ UNCHANGED <<users, surveyors>>
    ELSE /\ surveyors' = surveyors \cup {r.value}
         /\ AccessReturns(Append(call.sent, [statement |-> "INSERT INTO surveyors",
                                             result |-> "ok"]))
         /\ UNCHANGED users

AccessInsert(fail) ==
    /\ call.pc \in {"access", "retry"}
    /\ AccessSettle(fail, ExecSurveyorInsert(SurveyorRow(call.userEmail, call.studyId)))
    /\ UNCHANGED <<study, survey, tables, pool, locations, client>>

\* createUserFromEmail inside giveUserStudyAccess settles: the retry is sent,
\* or the call throws
AccessCreateUser(userId, fail) ==
    /\ call.pc = "createUser"
    /\ userId \notin {u.user_id : u \in users}
    /\ IF fail \/ call.userEmail \in {u.email : u \in users}
       THEN /\ AccessThrows(Append(call.sent, [statement |-> "INSERT INTO users",
                                               result |-> "error"]), "could not add user")
            /\ UNCHANGED users
       ELSE /\ users' = users \cup {[user_id |-> userId, email |-> call.userEmail]}
            /\ call' = [call EXCEPT !.pc = "retry", !.newUserId = Str(userId),
                                    !.sent = Append(@, [statement |-> "INSERT INTO users",
                                                        result |-> "ok"])]
            /\ UNCHANGED last
    /\ UNCHANGED <<study, survey, tables, pool, surveyors, locations, client>>

\* createLocation: one INSERT INTO data_collection.location; an error of the
\* query is logged and the call returns undefined
CreateLocation(locationId, geometry, fail) ==
    /\ IF \/ fail
          \/ locationId \in {l.location_id : l \in locations}
          \/ ST_GeomFromGeoJSON(JSONstringify(geometry)).threw
       THEN /\ last' = [op |-> "createLocation", locationId |-> locationId, threw |-> FALSE,
                        queryFailed |-> TRUE, returned |-> Undefined]
            /\ UNCHANGED locations
       ELSE /\ locations' = locations \cup {[location_id |-> locationId,
                                             geometry |-> ST_GeomFromGeoJSON(JSONstringify(geometry)).value]}
            /\ last' = [op |-> "createLocation", locationId |-> locationId, threw |-> FALSE,
                        queryFailed |-> FALSE, returned |-> [t |-> "object", command |-> Str("INSERT")]]
    /\ UNCHANGED <<users, study, survey, tables, call, pool, surveyors, client>>

\* ------------------------------------------------------------------------
\* Firestore: study access by email
\* ------------------------------------------------------------------------
\* addUserToStudyByEmail up to its first await: studyRef.get() is sent
AddUserToStudyByEmail(c, studyId, email) ==
    /\ grants[c] = Idle
    /\ grants' = [grants EXCEPT ![c] = [pc |-> "get", studyId |-> studyId, email |-> email]]
    /\ UNCHANGED <<db, call, pool, last, firestore, signUpState, authState, uiState, task>>

\* doc.data() with the email pushed onto its surveyors, a missing list
\* counting as empty
WithSurveyor(data, email) ==
    [data EXCEPT !.surveyors =
        Arr(Append((IF @ = Undefined THEN Arr(<<>>) ELSE @).xs, email))]

\* A call that ended: "returned" after its set, "absent" when the document
\* does not exist, "logged" when get or set rejected and the catch logged it
Ended(g, outcome) ==
    [pc |-> "done", studyId |-> g.studyId, email |-> g.email, outcome |-> outcome]

\* studyRef.get() settles: the call copies the document as it is now, pushes
\* its email onto the copy and sends studyRef.set(currentData)
GrantGet(c, fail) ==
    /\ grants[c].pc = "get"
    /\ grants' = [grants EXCEPT ![c] =
          IF fail THEN Ended(@, "logged")
          ELSE IF ~firestore[@.studyId].exists THEN Ended(@, "absent")
          ELSE [pc |-> "set", studyId |-> @.studyId, email |-> @.email,
                currentData |-> WithSurveyor(firestore[@.studyId].data, @.email)]]
    /\ UNCHANGED <<db, call, pool, last, firestore, signUpState, authState, uiState, task>>

\* studyRef.set(currentData) settles: the document becomes the call's copy
GrantSet(c, fail) ==
    /\ grants[c].pc = "set"
    /\ IF fail
       THEN UNCHANGED firestore
       ELSE firestore' = [firestore EXCEPT ![grants[c].studyId] = Document(grants[c].currentData)]
    /\ grants' = [grants EXCEPT ![c] = Ended(@, IF fail THEN "logged" ELSE "returned")]
    /\ UNCHANGED <<db, call, pool, last, signUpState, authState, uiState, task>>

\* ------------------------------------------------------------------------
\* The sign-up store (stores/signup.ts) and its form
\* ------------------------------------------------------------------------
MIN_PASSWORD_LENGTH == 7
MAX_PASSWORD_LENGTH == 1000
SPECIAL_CHARACTERS == <<"!", "@", "#", "$", "%", "^", "&", "*", "?">>

checkPasswordInput(password) ==
    IF Len(password) < MIN_PASSWORD_LENGTH
    THEN Throw("Password must be at least 7 characters long")
    ELSE IF Len(password) > MAX_PASSWORD_LENGTH
    THEN Throw("Password must be less than 1000 characters long")
    ELSE IF Range(SPECIAL_CHARACTERS) \cap Range(password) = {}
    THEN Throw("Password must contain one special character")
    ELSE Ok(password)

checkEmailInput(email) ==
    IF "@" \notin Range(email) THEN Throw("Invalid syntax for email") ELSE Ok(email)

\* The requests of the store: postRest(uri, body) and fetch(uri, {headers})
PostRest(uri, body) == [method |-> "POST", uri |-> uri, body |-> body]
Fetch(uri, headers) == [method |-> "GET", uri |-> uri, headers |-> headers]

\* The ways an awaited postRest settles: it resolves, or rejects with an
\* UnauthorizedError or with another error
Settlements == {"ok", "UnauthorizedError", "Error"}

resetSignupState(state) == [state EXCEPT !.email = <<>>, !.password = <<>>]

\* A store call that ended
Returned(op, sent, settled) ==
    [op |-> op, threw |-> FALSE, error |-> "", sent |-> sent, settled |-> settled]
Rejected(op, error, sent, settled) ==
    [op |-> op, threw |-> TRUE, error |-> error, sent |-> sent, settled |-> settled]

\* The onChange handlers of the sign-up form
OnChangeEmail(value) ==
    /\ signUpState' = [signUpState EXCEPT !.email = value]
    /\ UNCHANGED <<db, call, pool, last, firestore, grants, authState, uiState, task>>
OnChangePassword(value) ==
    /\ signUpState' = [signUpState EXCEPT !.password = value]
    /\ UNCHANGED <<db, call, pool, last, firestore, grants, authState, uiState, task>>
OnChangePasswordConfirmation(value) ==
    /\ signUpState' = [signUpState EXCEPT !.passwordConfirmation = value]
    /\ UNCHANGED <<db, call, pool, last, firestore, grants, authState, uiState, task>>

\* signUpUser up to its first await: the two early returns, or the whitelist
\* request for the email read from the form
SignUpUser ==
    /\ task = Idle
    /\ IF signUpState.password # signUpState.passwordConfirmation
       THEN /\ signUpState' = [signUpState EXCEPT
                                 !.passwordConfirmationErrorMessage = "Passwords must match"]
            /\ uiState' = [uiState EXCEPT !.snackBar = "Passwords must match"]
            /\ last' = Returned("signUpUser", <<>>, <<>>)
            /\ UNCHANGED task
       ELSE IF checkEmailInput(signUpState.email).threw
       THEN /\ uiState' = [uiState EXCEPT !.snackBar = checkEmailInput(signUpState.email).error]
            /\ last' = Returned("signUpUser", <<>>, <<>>)
            /\ UNCHANGED <<signUpState, task>>
       ELSE IF checkPasswordInput(signUpState.password).threw
       THEN /\ uiState' = [uiState EXCEPT !.snackBar = checkPasswordInput(signUpState.password).error]
            /\ last' = Returned("signUpUser", <<>>, <<>>)
            /\ UNCHANGED <<signUpState, task>>
       ELSE /\ task' = [op |-> "signUpUser", pc |-> "check_whitelist",
                        email |-> signUpState.email, password |-> signUpState.password,
                        sent |-> <<PostRest("/auth/check_whitelist", [email |-> signUpState.email])>>,
                        settled |-> <<>>]
            /\ UNCHANGED <<signUpState, uiState, last>>
    /\ UNCHANGED <<db, call, pool, firestore, grants, authState>>

\* Faulty variant: the signup request is sent whatever the whitelist check said
SignUpWhitelist_Ignored(outcome) ==
    /\ task # Idle /\ task.op = "signUpUser" /\ task.pc = "check_whitelist"
    /\ task' = [task EXCEPT !.pc = "signup",
                    !.sent = Append(@, PostRest("/auth/signup",
                                    [password |-> task.password, email |-> task.email])),
                    !.settled = Append(@, outcome)]
    /\ UNCHANGED <<signUpState, uiState, last>>
    /\ UNCHANGED <<db, call, pool, firestore, grants, authState>>

\* The whitelist request of signUpUser settles: the signup request follows a
\* success; a rejection goes to the catch and the finally
SignUpWhitelist(outcome) ==
    /\ task # Idle /\ task.op = "signUpUser" /\ task.pc = "check_whitelist"
    /\ IF outcome = "ok"
       THEN /\ task' = [task EXCEPT !.pc = "signup",
                           !.sent = Append(@, PostRest("/auth/signup",
                                           [password |-> task.password, email |-> task.email])),
                           !.settled = Append(@, outcome)]
            /\ UNCHANGED <<signUpState, uiState, last>>
       ELSE /\ uiState' = [uiState EXCEPT !.snackBar = "Unable to sign sign " \o outcome]
            /\ signUpState' = resetSignupState(signUpState)
            /\ last' = Returned("signUpUser", task.sent, Append(task.settled, outcome))
            /\ task' = Idle
    /\ UNCHANGED <<db, call, pool, firestore, grants, authState>>

\* The signup request settles: isAuth and the navigation follow a success, the
\* snack bar a rejection, and the finally resets the form either way
SignUpSignup(outcome) ==
    /\ task # Idle /\ task.op = "signUpUser" /\ task.pc = "signup"
    /\ IF outcome = "ok"
       THEN /\ authState' = [authState EXCEPT !.isAuth = TRUE]
            /\ uiState' = [uiState EXCEPT !.uri = "/studies"]
       ELSE /\ uiState' = [uiState EXCEPT !.snackBar = "Unable to sign sign " \o outcome]
            /\ UNCHANGED authState
    /\ signUpState' = resetSignupState(signUpState)
    /\ last' = Returned("signUpUser", task.sent, Append(task.settled, outcome))
    /\ task' = Idle
    /\ UNCHANGED <<db, call, pool, firestore, grants>>

\* logInUserGoogleOAuth up to its first await: the whitelist request for the
\* email of the Google profile
LogInUserGoogleOAuth(hostname, response) ==
    /\ task = Idle
    /\ task' = [op |-> "logInUserGoogleOAuth", pc |-> "check_whitelist",
                email |-> response.profileObj.email, accessToken |-> response.accessToken,
                error |-> "",
                sent |-> <<PostRest(hostname \o "/auth/check_whitelist",
                                    [email |-> response.profileObj.email])>>,
                settled |-> <<>>]
    /\ UNCHANGED <<db, call, pool, last, firestore, grants, signUpState, authState, uiState>>

RevokeRequest(accessToken) ==
    Fetch("https://accounts.google.com/o/oauth2/revoke?token=" \o accessToken,
          [ContentType |-> "application/x-www-form-urlencoded"])
TokenRequest(accessToken) ==
    Fetch("https://commons-staging.sidewalklabs.com/auth/google/token",
          [ContentType |-> "application/json; charset=utf-8", accessToken |-> accessToken])

\* Faulty variant: the revoke request is not in a finally, so that a rejected
\* whitelist check ends the call at once
LogInWhitelist_NoFinally(outcome) ==
    /\ task # Idle /\ task.op = "logInUserGoogleOAuth" /\ task.pc = "check_whitelist"
    /\ IF outcome = "ok"
       THEN /\ task' = [task EXCEPT !.pc = "revoke",
                           !.sent = Append(@, RevokeRequest(task.accessToken)),
                           !.settled = Append(@, outcome)]
            /\ UNCHANGED last
       ELSE /\ last' = Rejected("logInUserGoogleOAuth", outcome, task.sent,
                                Append(task.settled, outcome))
            /\ task' = Idle
    /\ UNCHANGED <<db, call, pool, firestore, grants, signUpState, authState, uiState>>

\* The whitelist request of logInUserGoogleOAuth settles: a rejection is kept
\* to be rethrown, and the finally sends the revoke request either way
LogInWhitelist(outcome) ==
    /\ task # Idle /\ task.op = "logInUserGoogleOAuth" /\ task.pc = "check_whitelist"
    /\ task' = [task EXCEPT !.pc = "revoke",
                    !.error = IF outcome = "ok" THEN "" ELSE outcome,
                    !.sent = Append(@, RevokeRequest(task.accessToken)),
                    !.settled = Append(@, outcome)]
    /\ UNCHANGED <<db, call, pool, last, firestore, grants, signUpState, authState, uiState>>

\* The ways an awaited fetch settles: a response with a status, or a rejection
FetchSettlements == {"200", "400", "TypeError"}

\* The revoke request settles; whatever it said is only logged. Then the kept
\* rejection is rethrown, or the token exchange is sent
LogInRevoke(outcome) ==
    /\ task # Idle /\ task.op = "logInUserGoogleOAuth" /\ task.pc = "revoke"
    /\ IF task.error # ""
       THEN /\ last' = Rejected("logInUserGoogleOAuth", task.error, task.sent,
                                Append(task.settled, outcome))
            /\ task' = Idle
       ELSE /\ task' = [task EXCEPT !.pc = "token",
                           !.sent = Append(@, TokenRequest(task.accessToken)),
                           !.settled = Append(@, outcome)]
            /\ UNCHANGED last
    /\ UNCHANGED <<db, call, pool, firestore, grants, signUpState, authState, uiState>>

\* The token exchange settles: status 200 sets isAuth and navigates, another
\* status shows the snack bar, a rejected fetch rejects the call
LogInToken(outcome) ==
    /\ task # Idle /\ task.op = "logInUserGoogleOAuth" /\ task.pc = "token"
    /\ IF outcome = "200"
       THEN /\ authState' = [authState EXCEPT !.isAuth = TRUE]
            /\ uiState' = [uiState EXCEPT !.uri = "/studies"]
            /\ last' = Returned("logInUserGoogleOAuth", task.sent, Append(task.settled, outcome))
       ELSE IF outcome = "TypeError"
       THEN /\ last' = Rejected("logInUserGoogleOAuth", outcome, task.sent,
                                Append(task.settled, outcome))
            /\ UNCHANGED <<authState, uiState>>
       ELSE /\ uiState' = [uiState EXCEPT !.snackBar = "Unable to Sign In"]
            /\ last' = Returned("logInUserGoogleOAuth", task.sent, Append(task.settled, outcome))
            /\ UNCHANGED authState
    /\ task' = Idle
    /\ UNCHANGED <<db, call, pool, firestore, grants, signUpState>>

\* ------------------------------------------------------------------------
\* Inputs
\* ------------------------------------------------------------------------
SeqsUpTo(S, n) == UNION {[1..k -> S] : k \in 0..n}

\* Field selections: every list of up to MaxFieldsLen of three fields, the
\* minimal selection with a name repeated, and the lists around the full
\* selection (reordered, one repeated, one missing)
ShortFields == {"gender", "location", "age"}
Swap(xs, i) == [j \in 1..Len(xs) |-> IF j = i THEN xs[i + 1] ELSE IF j = i + 1 THEN xs[i] ELSE xs[j]]
Without(xs, i) == [j \in 1..(Len(xs) - 1) |-> IF j < i THEN xs[j] ELSE xs[j + 1]]
FieldSelections ==
    SeqsUpTo(ShortFields, MaxFieldsLen)
    \cup {Append(genderLocationArray, f) : f \in Range(genderLocationArray)}
    \cup {allGehlFieldsArray}
    \cup {Swap(allGehlFieldsArray, i) : i \in {1, Len(allGehlFieldsArray) - 1}}
    \cup {Append(allGehlFieldsArray, f) : f \in {"gender", "note"}}
    \cup {Without(allGehlFieldsArray, i) : i \in {1, Len(allGehlFieldsArray)}}

\* Raw data points: every object of up to MaxKeys of these entries
Entry(k, v) == [key |-> k, value |-> v]
Entries ==
    {Entry("gender", v) : v \in {Str("male"), Null, Undefined}}
    \cup {Entry("age", v) : v \in {Str("child"), Str("young"), Str("adult"), Str("elderly"),
                                   Str("teen"), Null, Undefined}}
    \cup {Entry("groups", v) : v \in {Str("single"), Str("pair"), Str("group"), Str("crowd"),
                                      Str("mob")}}
    \cup {Entry("activities", v) : v \in {Str("commercial"),
                                          Arr(<<Str("commercial"), Str("consuming")>>),
                                          Arr(<<Null>>)}}
    \cup {Entry("location", v) : v \in {GeoPoint(1, 2), LonLat(1, 2), Str("here"), Null, Undefined}}
    \cup {Entry("note", Str("hello"))}
    \cup {Entry("data_point_id", Str("d1"))}
    \cup {Entry("survey_id", Str("s2"))}
    \cup {Entry("color", v) : v \in {Str("red"), Null}}
RawDataPoints ==
    {o \in SeqsUpTo(Entries, MaxKeys) : \A i, j \in 1..Len(o) : i # j => o[i].key # o[j].key}

\* The data points of the concurrent specification
Observation(id, gender, lon, lat) ==
    <<Entry("data_point_id", Str(id)), Entry("gender", Str(gender)), Entry("location", GeoPoint(lon, lat))>>
DataPoints ==
    { Append(Observation("d1", "male", 1, 2), Entry("age", Str("child"))),
      Observation("d1", "female", 3, 4),
      Observation("d2", "female", 3, 4),
      <<Entry("data_point_id", Str("d1")), Entry("location", LonLat(1, 2))>> }

TheStudy == <<"a", "-", "b">>

\* ------------------------------------------------------------------------
\* Specifications
\* ------------------------------------------------------------------------
\* Studies, surveys and concurrent data-point writes
Next ==
    \/ \E e \in Emails, u \in UserIds, fail \in BOOLEAN : CreateUserFromEmail(e, u, fail)
    \/ \E s \in SurveyIds, e \in Emails, fail \in BOOLEAN : CreateNewSurveyForStudy(s, TheStudy, e, fail)
    \/ \E fields \in {genderLocationArray, allGehlFieldsArray} : CreateStudy(TheStudy, fields)
    \/ \E fail \in BOOLEAN : CreateStudyMetadata(fail)
    \/ \E fail \in BOOLEAN : CreateStudyTable(fail)
    \/ \E s \in SurveyIds, dataPoint \in DataPoints :
          /\ Cardinality(pool) < MaxInflight
          /\ AddDataPointToSurveyWithStudyId(TheStudy, s, dataPoint)
    \/ \E q \in pool, fail \in BOOLEAN : DbExec(q, fail)
Spec == Init /\ [][Next]_vars

\* createStudy over every field selection
NextStudy ==
    \/ \E studyId \in StudyIds, fields \in FieldSelections :
          /\ Cardinality(study) < MaxStudies
          /\ CreateStudy(studyId, fields)
    \/ \E fail \in BOOLEAN : CreateStudyMetadata(fail)
    \/ \E fail \in BOOLEAN : CreateStudyTable(fail)
SpecStudy == Init /\ [][NextStudy]_vars

\* The codec over every raw data point: the first data point submitted to
\* survey s1 of a study with the full field selection, right after user e1
\* created the survey
SurveyCreated == [op |-> "createNewSurveyForStudy", surveyId |-> "s1", threw |-> FALSE]
InitCodec ==
    /\ users = {[user_id |-> "u1", email |-> "e1"]}
    /\ study = {[study_id |-> TheStudy, tablename |-> studyIdToTablename(TheStudy),
                 table_definition |-> allGehlFieldsArray]}
    /\ survey = {[survey_id |-> "s1", study_id |-> TheStudy, user_id |-> "u1"]}
    /\ tables = (studyIdToTablename(TheStudy) :> [columns |-> allGehlFieldsTable, rows |-> {}])
    /\ call = Idle
    /\ pool = {}
    /\ last = SurveyCreated
    /\ surveyors = {}
    /\ locations = {}
    /\ InitClient
NextCodec ==
    \/ \E dataPoint \in RawDataPoints :
          /\ last = SurveyCreated
          /\ AddDataPointToSurveyWithStudyId(TheStudy, "s1", dataPoint)
    \/ \E q \in pool, fail \in BOOLEAN : DbExec(q, fail)
SpecCodec == InitCodec /\ [][NextCodec]_vars

\* The by-survey calls on survey s1 of a provisioned study, with either
\* template, and on the unknown survey s2
SurveyDataPoints ==
    { Observation("d1", "male", 1, 2),
      <<Entry("data_point_id", Str("d2")), Entry("gender", Str("female")),
        Entry("location", LonLat(3, 4))>>,
      <<Entry("data_point_id", Str("d1")), Entry("age", Str("teen"))>>,
      <<Entry("data_point_id", Str("d1")), Entry("color", Str("red"))>> }
InitSurvey ==
    /\ users = {[user_id |-> "u1", email |-> "e1"]}
    /\ \E fields \in {genderLocationArray, allGehlFieldsArray} :
          /\ study = {[study_id |-> TheStudy, tablename |-> studyIdToTablename(TheStudy),
                       table_definition |-> fields]}
          /\ tables = (studyIdToTablename(TheStudy) :>
                          [columns |-> createNewTableFromGehlFields(TheStudy, studyIdToTablename(TheStudy), fields).value.columns,
                           rows |-> {}])
    /\ survey = {[survey_id |-> "s1", study_id |-> TheStudy, user_id |-> "u1"]}
    /\ call = Idle
    /\ pool = {}
    /\ last = SurveyCreated
    /\ surveyors = {}
    /\ locations = {}
    /\ InitClient
NextSurvey ==
    \/ \E s \in SurveyIds \cup OtherSurveyIds, dataPoint \in SurveyDataPoints :
          /\ Cardinality(pool) < MaxInflight
          /\ AddDataPointToSurveyNoStudyId(s, dataPoint)
    \/ \E s \in SurveyIds \cup OtherSurveyIds :
          /\ Cardinality(pool) < MaxInflight
          /\ RetrieveDataPointsForSurvey(s)
    \/ \E s \in SurveyIds \cup OtherSurveyIds, d \in DataPointIds :
          /\ Cardinality(pool) < MaxInflight
          /\ DeleteDataPoint(s, d)
    \/ \E q \in pool, fail \in BOOLEAN : GetTablenameForSurveyId(q, fail)
    \/ \E q \in pool, fail \in BOOLEAN : DbInsert(q, fail)
    \/ \E q \in pool, fail \in BOOLEAN : DbSelect(q, fail)
    \/ \E q \in pool, fail \in BOOLEAN : DbDelete(q, fail)
SpecSurvey == InitSurvey /\ [][NextSurvey]_vars

\* Users, study access, surveyor checks and locations over one study
LocationIds == {"l1"}
Geometries == {GeoPoint(1, 2), Str("here")}
NextAccess ==
    \/ \E e \in Emails, u \in UserIds, fail \in BOOLEAN : CreateUserFromEmail(e, u, fail)
    \/ CreateStudy(TheStudy, genderLocationArray)
    \/ \E fail \in BOOLEAN : CreateStudyMetadata(fail)
    \/ \E fail \in BOOLEAN : CreateStudyTable(fail)
    \/ \E s \in SurveyIds, e \in Emails, fail \in BOOLEAN : CreateNewSurveyForStudy(s, TheStudy, e, fail)
    \/ \E e \in Emails : GiveUserStudyAccess(e, TheStudy)
    \/ \E fail \in BOOLEAN : AccessInsert(fail)
    \/ \E u \in UserIds \cup OtherUserIds, fail \in BOOLEAN : AccessCreateUser(u, fail)
    \/ \E u \in UserIds \cup OtherUserIds, s \in SurveyIds \cup OtherSurveyIds, fail \in BOOLEAN :
          CheckUserIdIsSurveyor(u, s, fail)
    \/ \E l \in LocationIds, g \in Geometries, fail \in BOOLEAN : CreateLocation(l, g, fail)
SpecAccess == Init /\ [][NextAccess]_vars

\* The by-survey calls on two surveys, s1 and s2, of one study with the full
\* field selection
IsolationDataPoints == {Observation("d1", "male", 1, 2), Observation("d2", "female", 3, 4)}
InitIsolation ==
    /\ users = {[user_id |-> "u1", email |-> "e1"]}
    /\ study = {[study_id |-> TheStudy, tablename |-> studyIdToTablename(TheStudy),
                 table_definition |-> allGehlFieldsArray]}
    /\ survey = {[survey_id |-> s, study_id |-> TheStudy, user_id |-> "u1"] :
                    s \in SurveyIds \cup OtherSurveyIds}
    /\ tables = (studyIdToTablename(TheStudy) :> [columns |-> allGehlFieldsTable, rows |-> {}])
    /\ call = Idle
    /\ pool = {}
    /\ last = SurveyCreated
    /\ surveyors = {}
    /\ locations = {}
    /\ InitClient
NextIsolation ==
    \/ \E s \in SurveyIds \cup OtherSurveyIds, dataPoint \in IsolationDataPoints :
          /\ Cardinality(pool) < MaxInflight
          /\ AddDataPointToSurveyNoStudyId(s, dataPoint)
    \/ \E s \in SurveyIds \cup OtherSurveyIds :
          /\ Cardinality(pool) < MaxInflight
          /\ RetrieveDataPointsForSurvey(s)
    \/ \E s \in SurveyIds \cup OtherSurveyIds, d \in DataPointIds :
          /\ Cardinality(pool) < MaxInflight
          /\ DeleteDataPoint(s, d)
    \/ \E q \in pool, fail \in BOOLEAN : GetTablenameForSurveyId(q, fail)
    \/ \E q \in pool, fail \in BOOLEAN : DbInsert(q, fail)
    \/ \E q \in pool, fail \in BOOLEAN : DbSelect(q, fail)
    \/ \E q \in pool, fail \in BOOLEAN : DbDelete(q, fail)
SpecIsolation == InitIsolation /\ [][NextIsolation]_vars

\* Grants of access to the study document, saved with or without a surveyors
\* list, and to a study that has no document
SurveyorEmails == {"e1", "e2"}
InitFirestore ==
    /\ users = {}
    /\ study = {}
    /\ survey = {}
    /\ tables = NoTables
    /\ call = Idle
    /\ pool = {}
    /\ last = [op |-> "none"]
    /\ surveyors = {}
    /\ locations = {}
    /\ \E list \in {Undefined, Arr(<<>>)} :
          firestore = [s \in StudyIds |->
                          IF s = TheStudy THEN Document([surveyors |-> list]) ELSE Absent]
    /\ grants = [c \in Calls |-> Idle]
    /\ signUpState = InitialSignUpState
    /\ authState = [isAuth |-> FALSE]
    /\ uiState = [snackBar |-> "", uri |-> ""]
    /\ task = Idle
NextFirestore ==
    \/ \E c \in Calls, s \in StudyIds, e \in SurveyorEmails : AddUserToStudyByEmail(c, s, e)
    \/ \E c \in Calls, fail \in BOOLEAN : GrantGet(c, fail)
    \/ \E c \in Calls, fail \in BOOLEAN : GrantSet(c, fail)
SpecFirestore == InitFirestore /\ [][NextFirestore]_vars

\* The sign-up form: what the user types, and the Sign Up button
TypedEmails == {<<>>, <<"a", "@", "b">>, <<"a", "b">>}
TypedPasswords ==
    {<<>>, <<"s", "e", "c", "r", "e", "t", "!">>, <<"s", "h", "o", "r", "t", "!">>,
     <<"p", "a", "s", "s", "w", "o", "r", "d">>}
NextSignUp ==
    \/ \E value \in TypedEmails : OnChangeEmail(value)
    \/ \E value \in TypedPasswords : OnChangePassword(value)
    \/ \E value \in TypedPasswords : OnChangePasswordConfirmation(value)
    \/ SignUpUser
    \/ \E outcome \in Settlements : SignUpWhitelist(outcome)
    \/ \E outcome \in Settlements : SignUpSignup(outcome)
SpecSignUp == Init /\ [][NextSignUp]_vars

\* Google sign-in: the responses of two accounts, against two hosts
Hostnames == {"", "https://h"}
GoogleResponses ==
    {[profileObj |-> [email |-> <<"a", "@", "b">>], accessToken |-> "t1"],
     [profileObj |-> [email |-> <<"c", "@", "d">>], accessToken |-> "t2"]}
NextLogIn ==
    \/ \E hostname \in Hostnames, response \in GoogleResponses :
          LogInUserGoogleOAuth(hostname, response)
    \/ \E outcome \in Settlements : LogInWhitelist(outcome)
    \/ \E outcome \in FetchSettlements : LogInRevoke(outcome)
    \/ \E outcome \in FetchSettlements : LogInToken(outcome)
SpecLogIn == Init /\ [][NextLogIn]_vars

\* ------------------------------------------------------------------------
\* Properties of the data-point codec (SpecCodec)
\* ------------------------------------------------------------------------
\* The call that just ended handed a statement to the pool
Encoded == last.op = "addDataPoint" /\ ~last.threw
\* The raw value the encoder saw for a column of the statement
RawValue(c) == IF c = "survey_id" THEN Str(last.surveyId) ELSE Get(last.dataPoint, c)
\* The values bound to the placeholders of the k-th column of statement st
BoundTo(st, k) ==
    [j \in 1..Len(st.query.parameterBindings[k].params) |->
        st.values[st.query.parameterBindings[k].params[j]]]
\* The number of placeholders of the columns before the k-th
PlaceholdersBefore(st, k) ==
    Cardinality(UNION {{<<i, j>> : j \in 1..Len(st.query.parameterBindings[i].params)} :
                            i \in 1..(k - 1)})

\* C1: in every statement the encoder produces, the placeholders are exactly
\* $1..$N for the N bound values, the k-th column's placeholders are the next
\* consecutive indices and index the value(s) made for that column, in the
\* VALUES list and in the SET list alike, and a column has two placeholders
\* (and two values) exactly when it is a location given as a
\* {longitude, latitude} pair; every other column has one.
C1_PlaceholdersAligned ==
    Encoded =>
        LET st == last.sent[1]
            b == st.query.parameterBindings
            cols == st.query.columns
        IN /\ Len(b) = Len(cols)
           /\ st.query.setColumns = cols
           /\ st.query.setBindings = b
           /\ Placeholders(b) = 1..Len(st.values)
           /\ \A k \in 1..Len(b) :
                /\ b[k].params = [j \in 1..Len(b[k].params) |-> PlaceholdersBefore(st, k) + j]
                /\ Len(b[k].params) \in {1, 2}
                /\ Len(b[k].params) = 2 <=>
                      (cols[k] = "location" /\ Prop(RawValue(cols[k]), "type") # Str("Point"))
                /\ cols[k] = "location" /\ Len(b[k].params) = 2 =>
                      BoundTo(st, k) = <<Prop(RawValue(cols[k]), "longitude"),
                                         Prop(RawValue(cols[k]), "latitude")>>
                /\ cols[k] = "location" /\ Len(b[k].params) = 1 =>
                      BoundTo(st, k) = <<JSONstringify(RawValue(cols[k]))>>
                /\ cols[k] \in {"gender", "note", "survey_id", "data_point_id"} =>
                      BoundTo(st, k) = <<Str(TemplateString(RawValue(cols[k])))>>

\* C1 witness: a statement with a column before and a column after a
\* {longitude, latitude} location
C1_Witness ==
    /\ Encoded
    /\ Len(last.sent[1].values) = 5
    /\ last.sent[1].query.columns = <<"gender", "location", "survey_id", "data_point_id">>
    /\ last.sent[1].query.parameterBindings[2] = Binding("ST_GeomFromText", <<2, 3>>)

\* C2: a raw data point with a key outside the known field set makes the
\* encoder throw, and no statement is produced or handed to the pool.
C2_UnknownKeyRejected ==
    (/\ last.op = "addDataPoint"
     /\ \E i \in 1..Len(last.dataPoint) : last.dataPoint[i].key \notin validDataPointProperties)
        => (last.threw /\ last.sent = <<>> /\ pool = {})

\* C3: every column named in a statement the encoder produces, in the VALUES
\* list and in the SET list, is one of the eleven Gehl fields, survey_id or
\* data_point_id, whatever keys the raw data point carried.
C3_OnlyKnownColumns ==
    Encoded =>
        Range(last.sent[1].query.columns) \cup Range(last.sent[1].query.setColumns)
            \subseteq {"survey_id", "data_point_id", "gender", "age", "mode", "posture",
                       "activities", "groups", "object", "location", "creation_date",
                       "last_updated", "note"}

\* C3 witness: a statement produced for a raw data point that carried the
\* unknown key color
C3_Witness ==
    /\ Encoded
    /\ "color" \in Keys(last.dataPoint)
    /\ Get(last.dataPoint, "color") = Str("red")
    /\ "gender" \in Range(last.sent[1].query.columns)

\* C9: a Gehl field whose value is null or undefined is dropped: the statement
\* has no column for it, and the call ends as it does for the data point
\* without that field (the same exception or the same statement and values).
C9_NullOrUndefinedDropped ==
    last.op = "addDataPoint" =>
        \A i \in 1..Len(last.dataPoint) :
            (/\ last.dataPoint[i].key \in allGehlFieldsStrings
             /\ last.dataPoint[i].value \in {Null, Undefined})
            => /\ ~last.threw => last.dataPoint[i].key \notin Range(last.sent[1].query.columns)
               /\ last.threw = transformToPostgresInsert(Str(last.surveyId),
                                    Without(last.dataPoint, i)).threw
               /\ ~last.threw =>
                    /\ last.sent[1].query = transformToPostgresInsert(Str(last.surveyId),
                                                Without(last.dataPoint, i)).value.query
                    /\ last.sent[1].values = transformToPostgresInsert(Str(last.surveyId),
                                                Without(last.dataPoint, i)).value.values

\* The stored label of an age or groups label, "" for a label outside the tables
Remapped(key, label) ==
    IF key = "age"
    THEN CASE label = "child" -> "0-14" [] label = "young" -> "15-24"
           [] label = "adult" -> "25-64" [] label = "elderly" -> "65+" [] OTHER -> ""
    ELSE CASE label = "single" -> "group_1" [] label = "pair" -> "group_2"
           [] label = "group" -> "group_3-7" [] label = "crowd" -> "group_8+" [] OTHER -> ""

\* C10: an age or groups column of a produced statement is bound to the
\* remapped label of the raw value; a raw data point whose age or groups is a
\* label outside the tables makes the call throw, with no statement produced
\* and none handed to the pool.
C10_CategoricalRemap ==
    last.op = "addDataPoint" =>
        \A key \in {"age", "groups"} :
            /\ (Encoded /\ key \in Range(last.sent[1].query.columns)) =>
                  \A k \in 1..Len(last.sent[1].query.columns) :
                      last.sent[1].query.columns[k] = key =>
                          /\ RawValue(key).t = "string"
                          /\ Remapped(key, RawValue(key).s) # ""
                          /\ BoundTo(last.sent[1], k) = <<Str(Remapped(key, RawValue(key).s))>>
            /\ (/\ key \in Keys(last.dataPoint)
                /\ RawValue(key).t = "string"
                /\ Remapped(key, RawValue(key).s) = "")
                  => (last.threw /\ last.sent = <<>> /\ pool = {})
            /\ (Encoded /\ key \in Keys(last.dataPoint) /\ RawValue(key).t = "string")
                  => key \in Range(last.sent[1].query.columns)

\* C10 witness: age child and groups crowd bound as '0-14' and 'group_8+'
C10_Witness ==
    /\ Encoded
    /\ last.dataPoint = <<Entry("age", Str("child")), Entry("groups", Str("crowd"))>>
    /\ last.sent[1].values[1] = Str("0-14")
    /\ last.sent[1].values[2] = Str("group_8+")

\* C11: in every statement the encoder produces for a data point with a
\* location, a location of type 'Point' has the one placeholder
\* ST_GeomFromGeoJSON($n) bound to the serialized GeoJSON of the location, and
\* any other location has the two consecutive placeholders
\* ST_GeomFromText($n, $n+1) bound to its longitude and then its latitude.
C11_LocationEncoding ==
    Encoded =>
        \A k \in 1..Len(last.sent[1].query.columns) :
            last.sent[1].query.columns[k] = "location" =>
                LET n == PlaceholdersBefore(last.sent[1], k) + 1
                    location == Get(last.dataPoint, "location")
                IN IF Prop(location, "type") = Str("Point")
                   THEN /\ last.sent[1].query.parameterBindings[k] = Binding("ST_GeomFromGeoJSON", <<n>>)
                        /\ last.sent[1].values[n] = [t |-> "string", json |-> location]
                   ELSE /\ last.sent[1].query.parameterBindings[k] = Binding("ST_GeomFromText", <<n, n + 1>>)
                        /\ last.sent[1].values[n] = Prop(location, "longitude")
                        /\ last.sent[1].values[n + 1] = Prop(location, "latitude")

\* C11 witness: a note and then the pair {longitude: 1, latitude: 2}, encoded
\* as ST_GeomFromText($2, $3) with the values 1 and 2
C11_Witness ==
    /\ Encoded
    /\ last.dataPoint = <<Entry("note", Str("hello")), Entry("location", LonLat(1, 2))>>
    /\ last.sent[1].query.parameterBindings[2] = Binding("ST_GeomFromText", <<2, 3>>)
    /\ last.sent[1].values[2] = Num(1)
    /\ last.sent[1].values[3] = Num(2)

\* ------------------------------------------------------------------------
\* Properties of study creation (SpecStudy)
\* ------------------------------------------------------------------------
\* The selection, as a set of names, is one of the two supported ones
SupportedSet(fields) ==
    \/ Range(fields) = {"gender", "location"}
    \/ Range(fields) = {"gender", "age", "mode", "posture", "activities", "groups", "object",
                        "location", "creation_date", "last_updated", "note"}

\* C5: whenever no createStudy call is in flight, the study's metadata row
\* exists if and only if its backing table exists: the table names of the
\* metadata rows are exactly the names of the tables.
C5_StudyAllOrNothing ==
    call = Idle => {r.tablename : r \in study} = DOMAIN tables

\* C6: a createStudy call whose selection is, as a set, neither
\* {gender, location} nor the full eleven fields throws 'no table possible for
\* selected fields' before it sends any statement; no call with such a
\* selection is ever waiting on the database and no table other than the two
\* templates is ever created.
C6_UnsupportedSelectionFails ==
    /\ (last.op = "createStudy" /\ ~SupportedSet(last.fields)) =>
            /\ last.threw
            /\ last.error = "no table possible for selected fields"
            /\ last.sent = <<>>
    /\ call # Idle => SupportedSet(call.fields)
    /\ \A n \in DOMAIN tables : tables[n].columns \in {genderLocationTable, allGehlFieldsTable}

\* C6 witness: createStudy with the selection [gender, age] has thrown
C6_Witness ==
    /\ last.op = "createStudy"
    /\ last.fields = <<"gender", "age">>
    /\ last.threw
    /\ last.sent = <<>>

\* C7: a createStudy call whose selection is, as a set, {gender, location} or
\* the full eleven fields is accepted by provisioning, in whatever order the
\* names are listed and whether or not a name is repeated: it does not throw
\* 'no table possible for selected fields'.
C7_SupportDependsOnSetOnly ==
    (last.op = "createStudy" /\ SupportedSet(last.fields)) =>
        ~(last.threw /\ last.error = "no table possible for selected fields")

\* The CREATE TABLE statement q defines the three columns every table has
RequiredColumns(q) ==
    /\ \E i \in 1..Len(q.columns) :
          q.columns[i] = Col("survey_id", "UUID", TRUE, FALSE, "data_collection.survey(survey_id)")
    /\ \E i \in 1..Len(q.columns) : q.columns[i] = Col("data_point_id", "UUID", TRUE, TRUE, "")
    /\ \E i \in 1..Len(q.columns) : q.columns[i] = Col("location", "geometry", TRUE, FALSE, "")

\* C8 as stated: the CREATE TABLE of a call in flight has the three required
\* columns and every other column is a field of the selection.
C8_OnlySelectedColumns ==
    call # Idle =>
        /\ RequiredColumns(call.newStudyDataTableQuery)
        /\ ColumnNames(call.newStudyDataTableQuery) \ {"survey_id", "data_point_id", "location"}
              \subseteq Range(call.fields)

\* C8 amended: the CREATE TABLE of a call in flight has the not-null survey_id
\* foreign key, the data_point_id primary key and the not-null location
\* geometry, and every other column is a field of the selection or one of the
\* timestamp columns creation_date and last_updated.
C8_OnlySelectedOrTimestampColumns ==
    call # Idle =>
        /\ RequiredColumns(call.newStudyDataTableQuery)
        /\ ColumnNames(call.newStudyDataTableQuery) \ {"survey_id", "data_point_id", "location"}
              \subseteq Range(call.fields) \cup {"creation_date", "last_updated"}

\* C8 witness: the CREATE TABLE for [gender, location] is about to be sent
C8_Witness ==
    /\ call # Idle
    /\ call.fields = <<"gender", "location">>
    /\ "creation_date" \in ColumnNames(call.newStudyDataTableQuery)

\* ------------------------------------------------------------------------
\* Properties of concurrent data-point writes (Spec)
\* ------------------------------------------------------------------------
\* The value statement q stores in its column c
StoredValue(q, c) ==
    EvalBinding(q.query.parameterBindings[CHOOSE k \in 1..Len(q.query.columns) :
                                                q.query.columns[k] = c], q.values).value
RowsWithId(rows, id) == {r \in rows : r["data_point_id"] = id}

\* C4 as stated: once a data-point statement has been executed, its table
\* holds exactly one row with its data_point_id, and that row is the payload
\* alone: the statement's columns hold its values and every other column is
\* NULL.
C4_UpsertReplaces ==
    (last.op = "query" /\ ~last.threw) =>
        LET q == last.statement
            rows == RowsWithId(tables[q.tablename].rows, StoredValue(q, "data_point_id"))
        IN /\ Cardinality(rows) = 1
           /\ \A r \in rows : \A c \in DOMAIN r :
                r[c] = IF c \in Range(q.query.columns) THEN StoredValue(q, c) ELSE SqlNull

\* C4 amended: the successful execution of a data-point statement leaves
\* exactly one row with its data_point_id in its table; every column of the
\* statement holds the statement's value in that row, every other column
\* keeps the value of the row that had this id before (NULL if there was
\* none); the rows with other ids are unchanged.
C4_UpsertMerges ==
    [][\A q \in pool :
          (pool' = pool \ {q} /\ last'.op = "query" /\ ~last'.threw) =>
              LET id == StoredValue(q, "data_point_id")
                  old == RowsWithId(tables[q.tablename].rows, id)
                  new == RowsWithId(tables'[q.tablename].rows, id)
              IN /\ Cardinality(new) = 1
                 /\ Cardinality(old) <= 1
                 /\ \A r \in new : \A c \in DOMAIN r :
                      IF c \in Range(q.query.columns) THEN r[c] = StoredValue(q, c)
                      ELSE IF old = {} THEN r[c] = SqlNull
                      ELSE \A o \in old : r[c] = o[c]
                 /\ tables'[q.tablename].rows \ new = tables[q.tablename].rows \ old]_vars

\* C4 witness: data point d1 was written with gender male and age child and
\* then again with gender female and no age: its one row has gender female
\* and still the age band 0-14
C4_Witness ==
    /\ last.op = "query"
    /\ ~last.threw
    /\ last.statement.query.columns = <<"gender", "location", "survey_id", "data_point_id">>
    /\ last.statement.values[1] = Str("female")
    /\ \E r \in tables[last.statement.tablename].rows :
          /\ "age" \in DOMAIN r
          /\ r["data_point_id"] = Str("d1")
          /\ r["gender"] = Str("female")
          /\ r["age"] = Str("0-14")
    /\ Cardinality(tables[last.statement.tablename].rows) = 1

\* ------------------------------------------------------------------------
\* Properties of the by-survey operations (SpecSurvey)
\* ------------------------------------------------------------------------
IndexRows(surveyId) == {r \in survey_to_tablename : r.survey_id = surveyId}
HasDataPoint(tablename, dataPointId) ==
    \E r \in tables[tablename].rows : r["data_point_id"] = Str(dataPointId)

\* C12: deleteDataPoint is not idempotent. When the DELETE of a call settles
\* and the table holds no row with the data_point_id, the call throws (the
\* not-found error, unless the query itself failed) and no row changes; a call
\* that returns normally found the row and removed it, so a further delete of
\* the same id throws until the id is inserted again.
C12_DeleteNotIdempotent ==
    [][\A q \in pool :
          (q.kind = "DELETE FROM" /\ q \notin pool') =>
              /\ last'.op = "deleteDataPoint"
              /\ ~HasDataPoint(q.tablename, q.dataPointId) =>
                    /\ last'.threw
                    /\ last'.error \in {"No data point found to delete", "connection error"}
                    /\ tables' = tables
              /\ ~last'.threw =>
                    /\ HasDataPoint(q.tablename, q.dataPointId)
                    /\ ~HasDataPoint(q.tablename, q.dataPointId)'
              /\ last'.error = "No data point found to delete" =>
                    /\ ~HasDataPoint(q.tablename, q.dataPointId)
                    /\ tables' = tables]_vars
C12_Witness ==
    /\ last.op = "deleteDataPoint"
    /\ last.threw
    /\ last.error = "No data point found to delete"
    /\ last.surveyId = "s1"
    /\ last.dataPointId = "d1"
    /\ last.rowCount = 0
    /\ ~HasDataPoint(last.sent[1].tablename, "d1")

\* C13: getTablenameForSurveyId returns a name only when the index holds
\* exactly one row for the survey, and it is that row's name. Otherwise the
\* by-survey call (insert, list or delete) ends with the lookup's error, hands
\* no further statement to the pool and leaves every data table as it was.
C13_LookupGatesDataTable ==
    [][\A q \in pool :
          (q.kind = "SELECT tablename" /\ q \notin pool') =>
              IF Cardinality(IndexRows(q.surveyId)) = 1
              THEN \A n \in pool' \ pool :
                      n.tablename = (CHOOSE r \in IndexRows(q.surveyId) : TRUE).tablename
              ELSE /\ pool' = pool \ {q}
                   /\ tables' = tables
                   /\ last' = [op |-> q.then.op, surveyId |-> q.surveyId, threw |-> TRUE,
                               error |-> last'.error, sent |-> <<q>>]
                   /\ last'.error \in {"no tablename found for surveyId", "connection error"}]_vars
C13_Witness ==
    /\ last.op = "deleteDataPoint"
    /\ last.surveyId = "s2"
    /\ last.threw
    /\ last.error = "no tablename found for surveyId"
    /\ last.sent[1].kind = "SELECT tablename"
    /\ IndexRows("s2") = {}

\* The GeoJSON point a location denotes, in either accepted form
GeoJSONOf(location) ==
    IF Prop(location, "type") = Str("Point") THEN location
    ELSE GeoPoint(location.longitude.n, location.latitude.n)
\* The data points with a location, and the one location submitted under an id
Located == {p \in SurveyDataPoints : Get(p, "location") # Undefined}
InsertedLocation(id) ==
    Get(CHOOSE p \in Located : Get(p, "data_point_id") = Str(id), "location")

\* C14: round trip. On either template and for a location in either form,
\* the INSERT of a data point with a location succeeds unless the connection
\* fails, and so does the listing of the survey, which returns for every
\* stored data_point_id a record whose location is the GeoJSON point of the
\* location that was inserted.
C14_RoundTrip ==
    /\ (/\ last.op = "query"
        /\ last.statement.kind = "INSERT INTO"
        /\ "location" \in Range(last.statement.query.columns)
        /\ last.error # "connection error") => ~last.threw
    /\ (/\ last.op = "retrieveDataPointsForSurvey"
        /\ last.sent[1].kind = "SELECT FROM"
        /\ last.error # "connection error") =>
            /\ ~last.threw
            /\ \A r \in tables[last.sent[1].tablename].rows :
                  \E rec \in last.rows :
                      /\ rec["data_point_id"] = r["data_point_id"]
                      /\ rec["location"] = GeoJSONOf(InsertedLocation(r["data_point_id"].s))

\* A data point the validation rejects: a field outside the known set, or a
\* value the encoder refuses (a bad age or groups label)
Invalid(surveyId, dataPoint) ==
    \/ \E k \in Keys(dataPoint) : k \notin validDataPointProperties
    \/ transformToPostgresInsert(Str(surveyId), Put(dataPoint, "survey_id", Str(surveyId))).threw

\* C17: validation comes before any statement. An add-data-point call with an
\* invalid data point throws and has sent no query to the database, neither
\* the INSERT nor any query before it.
C17_ValidationBeforeStatements ==
    (/\ last.op = "addDataPointToSurveyNoStudyId"
     /\ "dataPoint" \in DOMAIN last
     /\ Invalid(last.surveyId, last.dataPoint)) => (last.threw /\ last.sent = <<>>)

\* ------------------------------------------------------------------------
\* Properties of surveys, access and locations
\* ------------------------------------------------------------------------
\* C15: a createNewSurveyForStudy that returned normally created its survey:
\* with a userEmail of no user the call throws and creates no row, and it
\* never reports success while having created nothing.
C15_SurveyNeedsUser ==
    (last.op = "createNewSurveyForStudy" /\ ~last.threw) =>
        \E r \in survey : r.survey_id = last.surveyId /\ r.user_id \in {u.user_id : u \in users}

\* The statements of the giveUserStudyAccess call in flight or just ended,
\* each with its result
AccessSent ==
    IF call.pc \in {"access", "createUser", "retry"} THEN call.sent
    ELSE IF last.op = "giveUserStudyAccess" THEN last.sent
    ELSE <<>>
AccessOf(statement) == {i \in 1..Len(AccessSent) : AccessSent[i].statement = statement}

\* C16: giveUserStudyAccess recovers from a foreign-key violation exactly once.
\* Per call the access INSERT is sent at most twice and at most one user is
\* created; the user is created only right after the first INSERT failed with
\* a foreign-key violation, and the second INSERT is sent only right after
\* that user was created; every other failure is the last statement of the
\* call, which then throws that failure, and a call returns normally exactly
\* when its last INSERT succeeded.
C16_RecoversOnce ==
    /\ Cardinality(AccessOf("INSERT INTO surveyors")) <= 2
    /\ Cardinality(AccessOf("INSERT INTO users")) <= 1
    /\ AccessOf("INSERT INTO users") \subseteq {2}
    /\ AccessOf("INSERT INTO surveyors") \subseteq {1, 3}
    /\ Len(AccessSent) >= 2 => AccessSent[1].result = FOREIGN_KEY_VIOLATION
    /\ Len(AccessSent) >= 3 => AccessSent[2].result = "ok"
    /\ Len(AccessSent) <= 3
    /\ last.op = "giveUserStudyAccess" /\ call = Idle =>
          /\ Len(last.sent) \in 1..3
          /\ last.threw <=> last.sent[Len(last.sent)].result # "ok"
          /\ last.threw => last.error = last.sent[Len(last.sent)].result
                            \/ last.sent[Len(last.sent)].statement = "INSERT INTO users"
          /\ (last.newUserId # Null) <=> Len(last.sent) = 3
    /\ last.op = "giveUserStudyAccess" /\ call = Idle /\ Len(last.sent) = 2 =>
          /\ last.threw
          /\ last.sent[2].result = "error"
C16_Witness ==
    /\ last.op = "giveUserStudyAccess"
    /\ call = Idle
    /\ ~last.threw
    /\ last.newUserId = Str("u1")
    /\ last.sent = <<[statement |-> "INSERT INTO surveyors", result |-> FOREIGN_KEY_VIOLATION],
                     [statement |-> "INSERT INTO users", result |-> "ok"],
                     [statement |-> "INSERT INTO surveyors", result |-> "ok"]>>
    /\ [user_id |-> "u1", study_id |-> TheStudy] \in surveyors

\* C18: no failure of a query is swallowed. A persistence operation whose
\* query failed ends with an exception towards its caller; createLocation in
\* particular never returns normally after its INSERT failed.
C18_FailuresPropagate ==
    /\ (last.op = "createLocation" /\ last.queryFailed) => last.threw
    /\ (last.op = "giveUserStudyAccess" /\ last.sent[Len(last.sent)].result # "ok") => last.threw

\* The characters of a study id without its hyphens, as one string
RECURSIVE StripHyphens(_)
StripHyphens(id) ==
    IF id = <<>> THEN ""
    ELSE (IF Head(id) = "-" THEN "" ELSE Head(id)) \o StripHyphens(Tail(id))

\* C19: the table name of a study is 'data_collection.study_' followed by the
\* study id without its hyphens: that is the name createStudy stores with the
\* study and creates the table under, and the name every INSERT of the
\* by-study insert path goes to, so the two agree.
C19_TablenameOfStudyId ==
    /\ \A r \in study : r.tablename = "data_collection.study_" \o StripHyphens(r.study_id)
    /\ \A q \in pool : q.tablename = "data_collection.study_" \o StripHyphens(TheStudy)
    /\ \A q \in pool : \A r \in study : r.study_id = TheStudy => q.tablename = r.tablename
    /\ \A name \in DOMAIN tables : \E r \in study : r.tablename = name
    /\ call.pc \in {"metadata", "table"} =>
          /\ call.newStudyMetadataQuery.tablename = "data_collection.study_" \o StripHyphens(call.studyId)
          /\ call.newStudyDataTableQuery.tablename = call.newStudyMetadataQuery.tablename
C19_Witness ==
    /\ study = {[study_id |-> TheStudy, tablename |-> "data_collection.study_ab",
                 table_definition |-> genderLocationArray]}
    /\ DOMAIN tables = {"data_collection.study_ab"}
    /\ \E q \in pool : q.kind = "INSERT INTO" /\ q.tablename = "data_collection.study_ab"
    /\ \E r \in tables["data_collection.study_ab"].rows : r["data_point_id"] = Str("d1")

\* C20: checkUserIdIsSurveyor returns true exactly when the survey table
\* holds a row with the user_id and the survey_id; for a user who conducts no
\* such survey it returns false.
C20_SurveyorIffRow ==
    (last.op = "checkUserIdIsSurveyor" /\ ~last.threw) =>
        (last.value <=> \E r \in survey : r.user_id = last.userId /\ r.survey_id = last.surveyId)

\* ------------------------------------------------------------------------
\* Schema conformance and isolation between surveys
\* ------------------------------------------------------------------------
\* C21: every statement handed to the pool names only columns of the table
\* createStudy created for the study: the columns of an upsert of a data
\* point, and the columns the list query of retrieveDataPointsForSurvey selects.
C21_StatementsFitTable ==
    \A q \in pool :
        /\ q.kind = "INSERT INTO" =>
              Range(q.query.columns) \subseteq ColumnNames(tables[q.tablename])
        /\ q.kind = "SELECT FROM" =>
              Range(retrievedColumns) \subseteq ColumnNames(tables[q.tablename])

\* The rows of a table that belong to another survey than surveyId
RowsOfOthers(tablename, surveyId) ==
    {r \in tables[tablename].rows : r["survey_id"] # surveyId}

\* C22: write isolation between the surveys of a study. When the DELETE of
\* deleteDataPoint(surveyA, id) or an upsert issued for surveyA is executed,
\* every row of another survey is still there unchanged afterwards; so no
\* data point changes its survey.
C22_WriteIsolation ==
    [][\A q \in pool :
          /\ (q.kind = "DELETE FROM" /\ q \notin pool') =>
                RowsOfOthers(q.tablename, Str(q.surveyId)) \subseteq tables'[q.tablename].rows
          /\ (q.kind = "INSERT INTO" /\ q \notin pool') =>
                RowsOfOthers(q.tablename, StoredValue(q, "survey_id"))
                    \subseteq tables'[q.tablename].rows]_vars

\* C23: read isolation between the surveys of a study. The records
\* retrieveDataPointsForSurvey(surveyId) returns are exactly the data points
\* stored with that survey_id.
C23_ReadIsolation ==
    (last.op = "retrieveDataPointsForSurvey" /\ ~last.threw) =>
        {rec["data_point_id"] : rec \in last.rows}
            = {r["data_point_id"] : r \in {x \in tables[last.sent[1].tablename].rows :
                                                x["survey_id"] = Str(last.surveyId)}}

\* ------------------------------------------------------------------------
\* Further properties of the data-point codec (SpecCodec)
\* ------------------------------------------------------------------------
ColumnsNamed(st, c) == {k \in 1..Len(st.query.columns) : st.query.columns[k] = c}

\* C24: in every statement the encoder produces, survey_id and data_point_id
\* are each named exactly once; the value bound to survey_id is the surveyId
\* argument of the call, whatever survey_id the raw data point carried, and
\* the value bound to data_point_id is the raw data point's data_point_id, as
\* a string.
C24_IdentifiersForced ==
    Encoded =>
        /\ Cardinality(ColumnsNamed(last.sent[1], "survey_id")) = 1
        /\ Cardinality(ColumnsNamed(last.sent[1], "data_point_id")) = 1
        /\ \A k \in ColumnsNamed(last.sent[1], "survey_id") :
              /\ BoundTo(last.sent[1], k) = <<Str(last.surveyId)>>
              /\ last.sent[1].query.setColumns[k] = "survey_id"
        /\ \A k \in ColumnsNamed(last.sent[1], "data_point_id") :
              /\ BoundTo(last.sent[1], k)
                    = <<Str(TemplateString(Get(last.dataPoint, "data_point_id")))>>
              /\ Get(last.dataPoint, "data_point_id").t = "string" =>
                    BoundTo(last.sent[1], k) = <<Get(last.dataPoint, "data_point_id")>>
              /\ last.sent[1].query.setColumns[k] = "data_point_id"
C24_Witness ==
    /\ Encoded
    /\ last.surveyId = "s1"
    /\ last.dataPoint = <<Entry("survey_id", Str("s2")), Entry("data_point_id", Str("d1"))>>
    /\ last.sent[1].query.columns = <<"survey_id", "data_point_id">>
    /\ last.sent[1].values = <<Str("s1"), Str("d1")>>

\* The data points that differ from dataPoint in the value of one key, with
\* the same keys kept by the strip of nulls and the same shape of location
IsPoint(v) == Prop(v, "type") = Str("Point")
Revalued(dataPoint) ==
    {[dataPoint EXCEPT ![i] = e] :
        <<i, e>> \in {x \in (1..Len(dataPoint)) \X Entries :
                        /\ x[2].key = dataPoint[x[1]].key
                        /\ x[2].value # dataPoint[x[1]].value
                        /\ (x[2].value = Null) <=> (dataPoint[x[1]].value = Null)
                        /\ x[2].key = "location" =>
                              IsPoint(x[2].value) <=> IsPoint(dataPoint[x[1]].value)}}
Statement(surveyId, dataPoint) ==
    transformToPostgresInsert(Str(surveyId), Put(dataPoint, "survey_id", Str(surveyId)))

\* C25: the statement is parameterized. A data point with the same keys kept
\* and the same shape of location as the one just encoded, but another value
\* under some key, yields the same statement (columns, placeholders,
\* conflict clause) whenever it is encoded at all; only the bound values
\* differ.
C25_Parameterized ==
    Encoded =>
        \A other \in Revalued(last.dataPoint) :
            ~Statement(last.surveyId, other).threw =>
                Statement(last.surveyId, other).value.query = last.sent[1].query
C25_Witness ==
    /\ Encoded
    /\ last.dataPoint = <<Entry("age", Str("child")), Entry("location", LonLat(1, 2))>>
    /\ <<Entry("age", Str("adult")), Entry("location", LonLat(1, 2))>> \in Revalued(last.dataPoint)
    /\ <<Entry("age", Str("child")), Entry("location", Str("here"))>> \in Revalued(last.dataPoint)
    /\ Statement("s1", <<Entry("age", Str("adult")), Entry("location", LonLat(1, 2))>>).value.values
           # last.sent[1].values
    /\ Statement("s1", <<Entry("age", Str("adult")), Entry("location", LonLat(1, 2))>>).value.query
           = last.sent[1].query

\* ------------------------------------------------------------------------
\* Order of the statements of createStudy (Spec)
\* ------------------------------------------------------------------------
\* C26: createStudy sends the metadata INSERT first and the CREATE TABLE only
\* after that INSERT succeeded. When the metadata INSERT settles, either it
\* failed, and the call throws having sent nothing else, or the study row is
\* written and the CREATE TABLE is sent next; no table changes in that step.
\* With a study id that already exists the INSERT fails, so the call throws
\* and no table is created or altered.
C26_MetadataBeforeTable ==
    [][/\ (call = Idle /\ call' # Idle) =>
             call'.sent = <<call'.newStudyMetadataQuery>>
       /\ (call.pc = "metadata" /\ call' # call) =>
             /\ tables' = tables
             /\ IF study' = study
                THEN /\ call' = Idle
                     /\ last'.op = "createStudy" /\ last'.threw
                     /\ last'.sent = <<call.newStudyMetadataQuery>>
                ELSE /\ call'.pc = "table"
                     /\ call'.sent = <<call.newStudyMetadataQuery, call.newStudyDataTableQuery>>
                     /\ study' = study \cup {[study_id |-> call.studyId,
                                               tablename |-> call.newStudyMetadataQuery.tablename,
                                               table_definition |-> call.fields]}
             /\ call.studyId \in {r.study_id : r \in study} => study' = study
       /\ (call.pc = "table" /\ call' # call) =>
             /\ call.studyId \in {r.study_id : r \in study}
             /\ \A name \in DOMAIN tables : name \in DOMAIN tables' /\ tables'[name] = tables[name]]_vars
C26_Witness ==
    /\ last.op = "createStudy"
    /\ last.threw
    /\ last.fields = allGehlFieldsArray
    /\ Len(last.sent) = 1
    /\ last.sent[1].kind = "INSERT INTO data_collection.study"
    /\ study = {[study_id |-> TheStudy, tablename |-> studyIdToTablename(TheStudy),
                 table_definition |-> genderLocationArray]}
    /\ DOMAIN tables = {studyIdToTablename(TheStudy)}
    /\ tables[studyIdToTablename(TheStudy)].columns = genderLocationTable

\* ------------------------------------------------------------------------
\* Independence of concurrent encodings (Spec)
\* ------------------------------------------------------------------------
\* The statement an add-data-point call for the study produces when it runs alone
Alone(surveyId, dataPoint) ==
    [kind |-> "INSERT INTO", tablename |-> studyIdToTablename(TheStudy),
     query |-> Statement(surveyId, dataPoint).value.query,
     values |-> Statement(surveyId, dataPoint).value.values]

Granted(studyId) ==
    IF firestore[studyId].exists /\ firestore[studyId].data.surveyors # Undefined
    THEN Range(firestore[studyId].data.surveyors.xs)
    ELSE {}

\* C27: concurrent grants are not lost. Once two addUserToStudyByEmail calls
\* for the same existing study and different emails have both completed their
\* write, however their reads and writes were interleaved, the surveyors list
\* of the study document holds both emails.
C27_GrantsNotLost ==
    \A c1, c2 \in Calls :
        ( /\ grants[c1].pc = "done" /\ grants[c2].pc = "done"
          /\ grants[c1].outcome = "returned" /\ grants[c2].outcome = "returned"
          /\ grants[c1].studyId = grants[c2].studyId
          /\ grants[c1].email # grants[c2].email )
        => {grants[c1].email, grants[c2].email} \subseteq Granted(grants[c1].studyId)

\* ------------------------------------------------------------------------
\* Order of the requests of signUpUser (SpecSignUp)
\* ------------------------------------------------------------------------
FormCleared(state) == state.email = <<>> /\ state.password = <<>>

\* C28: signUpUser sets isAuth only in the step in which its signup request
\* succeeds, and that request was sent after the whitelist check for the same
\* email had succeeded; a signup request in flight always follows a successful
\* whitelist check, so a failed check ends the call with one request sent;
\* and a call that ends on a failed request leaves isAuth as it was and the
\* stored email and password empty.
C28_SignUpOrder ==
    [][ /\ (authState' # authState) =>
              /\ task # Idle /\ task.op = "signUpUser" /\ task.pc = "signup"
              /\ authState'.isAuth
              /\ last'.sent = <<PostRest("/auth/check_whitelist", [email |-> task.email]),
                                PostRest("/auth/signup",
                                         [password |-> task.password, email |-> task.email])>>
              /\ last'.settled = <<"ok", "ok">>
        /\ (task' # Idle /\ task'.pc = "signup") =>
              /\ task'.settled = <<"ok">>
              /\ task'.sent[1].uri = "/auth/check_whitelist"
        /\ (task # Idle /\ task.pc = "check_whitelist" /\ task' = Idle) =>
              /\ last'.settled[1] # "ok"
              /\ last'.sent = <<PostRest("/auth/check_whitelist", [email |-> task.email])>>
        /\ (task # Idle /\ task' = Idle /\ last'.settled[Len(last'.settled)] # "ok") =>
              /\ authState' = authState
              /\ FormCleared(signUpState')
      ]_vars
C28_Witness ==
    /\ authState.isAuth
    /\ last.op = "signUpUser"
    /\ last.settled = <<"UnauthorizedError">>
    /\ Len(last.sent) = 1
    /\ FormCleared(signUpState)
    /\ signUpState.passwordConfirmation # <<>>

\* ------------------------------------------------------------------------
\* The revoke request of logInUserGoogleOAuth (SpecLogIn)
\* ------------------------------------------------------------------------
RevokeRequests == {RevokeRequest(response.accessToken) : response \in GoogleResponses}
TokenRequests == {TokenRequest(response.accessToken) : response \in GoogleResponses}
Occurrences(sent, requests) == Cardinality({i \in 1..Len(sent) : sent[i] \in requests})

\* C29: every logInUserGoogleOAuth call issues the revoke request exactly once,
\* as its second request, in the step in which the whitelist check settles and
\* whether that check succeeded or failed. A call whose whitelist check failed
\* throws that error, sends no token exchange and leaves isAuth as it was. A
\* token exchange is sent only after a successful check and after the revoke
\* request, and presents the access token that request revoked.
C29_RevokeOnce ==
    [][ /\ (task # Idle /\ task.pc = "check_whitelist" /\ task' # task) =>
              /\ task' # Idle
              /\ task'.sent = Append(task.sent, RevokeRequest(task.accessToken))
              /\ Len(task'.settled) = 1
        /\ (task' # Idle) => Occurrences(task'.sent, RevokeRequests) <= 1
        /\ (task # Idle /\ task' = Idle) =>
              /\ Occurrences(last'.sent, RevokeRequests) = 1
              /\ last'.sent[2] = RevokeRequest(task.accessToken)
        /\ (task # Idle /\ task' = Idle /\ last'.settled[1] # "ok") =>
              /\ last'.threw
              /\ last'.error = last'.settled[1]
              /\ Occurrences(last'.sent, TokenRequests) = 0
              /\ authState' = authState
        /\ (task' # Idle /\ task'.pc = "token") =>
              /\ task'.settled[1] = "ok"
              /\ Len(task'.sent) = 3
              /\ task'.sent[2] = RevokeRequest(task'.accessToken)
              /\ task'.sent[3] = TokenRequest(task'.accessToken)
      ]_vars
C29_Witness ==
    /\ last.op = "logInUserGoogleOAuth"
    /\ last.threw
    /\ last.error = "UnauthorizedError"
    /\ Occurrences(last.sent, RevokeRequests) = 1
    /\ authState.isAuth
====
